---- MODULE Spec2Model ----
(***************************************************************************)
(* Crawler engine of the inventory service: Resource.accept / try_accept,  *)
(* the @cached side-band getters, the root fetch with its placeholder and  *)
(* the child iterators, over a small resource hierarchy served by a        *)
(* client whose calls may fail.                                            *)
(*                                                                         *)
(* Strings that the code splits or searches are sequences of tokens: a     *)
(* name such as organizations/1 is <<"organizations", "1">> (segments      *)
(* between slashes), a message such as "Not found" is <<"Not", "found">>   *)
(* (words), and `x in str(e)` is a search for a contiguous run of tokens.  *)
(***************************************************************************)
EXTENDS Integers, Sequences, FiniteSets, TLC

\* Number of failures (client errors, visitor errors) injected in one run.
MaxFailures == 1

\* The caller's thread and the workers of the visitor's pool.
MainThread == "main"
Workers == {"w1", "w2"}

-----------------------------------------------------------------------------
(* Generic helpers *)

EmptyFn == [x \in {} |-> TRUE]

Last(s) == s[Len(s)]

Front(s) == SubSeq(s, 1, Len(s) - 1)

\* `needle in hay` for token strings: a contiguous occurrence.
Contains(hay, needle) ==
    \E i \in 1..(Len(hay) - Len(needle) + 1) :
        SubSeq(hay, i, i + Len(needle) - 1) = needle

RECURSIVE JoinSlash(_)
JoinSlash(p) ==
    IF Len(p) = 0 THEN ""
    ELSE IF Len(p) = 1 THEN p[1]
    ELSE p[1] \o "/" \o JoinSlash(Tail(p))

\* s.split('/', 1)[-1] of a slash-separated name.
SplitFirstLast(p) == IF Len(p) <= 1 THEN JoinSlash(p) ELSE JoinSlash(Tail(p))

\* '\n'.join(list of token strings)
RECURSIVE JoinLines(_)
JoinLines(ws) ==
    IF Len(ws) = 0 THEN <<>>
    ELSE IF Len(ws) = 1 THEN ws[1]
    ELSE ws[1] \o <<"\n">> \o JoinLines(Tail(ws))

Ok(v) == [ok |-> TRUE, val |-> v]
Err(e) == [ok |-> FALSE, exc |-> e]

-----------------------------------------------------------------------------
(* Exceptions *)

ApiExecutionError(msg) == [cls |-> "ApiExecutionError", msg |-> msg]
ResourceNotSupported(msg) == [cls |-> "ResourceNotSupported", msg |-> msg]
KeyErrorOf(field, rid) == [cls |-> "KeyError", msg |-> <<"key:", field, "data:", rid>>]
AttributeErrorOf(attr) ==
    [cls |-> "AttributeError",
     msg |-> <<"'NoneType'", "object", "has", "no", "attribute", attr>>]
OtherError(msg) == [cls |-> "Exception", msg |-> msg]

\* skip_errors of Resource.accept
skip_errors == { <<"Not", "found">>,
                 <<"Unknown", "project", "id">>,
                 <<"scheduled", "for", "deletion">> }

-----------------------------------------------------------------------------
(* The registry (FACTORIES) restricted to the entries of the hierarchy     *)
(* below, iterators in declaration order.                                  *)

\* type() of the class a registry entry constructs
TypeOf(cls) ==
    CASE cls = "composite_root"   -> "composite_root"
      [] cls = "organization"     -> "organization"
      [] cls = "folder"           -> "folder"
      [] cls = "project"          -> "project"
      [] cls = "iam_curated_role" -> "role"
      [] cls = "iam_role"         -> "role"
      [] cls = "compute_instance" -> "instance"
      [] cls = "dataset"          -> "dataset"

\* 'contains' of the registry entry
ContainsOf(cls) ==
    CASE cls = "composite_root"   -> <<"CompositeRootIterator">>
      [] cls = "organization"     -> <<"IamOrganizationCuratedRoleIterator",
                                       "IamOrganizationRoleIterator",
                                       "ResourceManagerFolderIterator">>
      [] cls = "folder"           -> <<"ResourceManagerProjectIterator">>
      [] cls = "project"          -> <<"ComputeInstanceIterator">>
      [] OTHER                    -> <<>>

\* The keys of FACTORIES the model carries
RegistryKeys ==
    {"composite_root", "organization", "folder", "project",
     "iam_curated_role", "iam_role", "compute_instance", "kubernetes_cluster",
     "kms_keyring", "storage_bucket", "storage_object"}

\* 'dependsOn' of the entry of FACTORIES
dependsOn(T) ==
    CASE T = "folder"             -> {"organization"}
      [] T = "project"            -> {"organization", "folder"}
      [] T = "iam_role"           -> {"organization", "project"}
      [] T = "compute_instance"   -> {"project"}
      [] T = "kubernetes_cluster" -> {"project"}
      [] T = "kms_keyring"        -> {"project"}
      [] T = "storage_bucket"     -> {"project"}
      [] T = "storage_object"     -> {"bucket"}
      [] OTHER                      -> {}

should_dispatch_foldersOnly(cls) == cls = "folder"

\* should_dispatch() of the class
should_dispatch(cls) == cls \in {"folder", "project", "gsuite_group"}

\* Parameters of the iterator classes: the registry entry of the children,
\* the parent field sent to the API method, the parent predicate.
IterChild(it) ==
    CASE it = "IamOrganizationCuratedRoleIterator" -> "iam_curated_role"
      [] it = "IamOrganizationRoleIterator"        -> "iam_role"
      [] it = "ResourceManagerFolderIterator"      -> "folder"
      [] it = "ResourceManagerProjectIterator"     -> "project"
      [] it = "ComputeInstanceIterator"            -> "compute_instance"
      [] it = "KubernetesClusterIterator"          -> "kubernetes_cluster"
      [] it = "KmsKeyRingIterator"                 -> "kms_keyring"
      [] OTHER                                     -> "root"

IterArgKey(it) ==
    CASE it = "ResourceManagerFolderIterator" -> "name"
      [] it = "IamOrganizationRoleIterator"   -> "name"
      [] it = "ComputeInstanceIterator"       -> "projectNumber"
      [] it = "KubernetesClusterIterator"     -> "projectNumber"
      [] it = "KmsKeyRingIterator"            -> "projectId"
      [] OTHER                                -> ""

\* resource_validation_method_name of the iterator class
IterValidation(it) ==
    CASE it = "ComputeInstanceIterator"   -> "compute_api_enabled"
      [] it = "KubernetesClusterIterator" -> "container_api_enabled"
      [] it = "KmsKeyRingIterator"        -> "enumerable"
      [] OTHER                            -> ""

-----------------------------------------------------------------------------
(* What the client serves. Four crawls are explored: composite root cr     *)
(* over an organization (a curated role, two folders with one project      *)
(* each) and a project; composite root cr2 over an organization with a     *)
(* curated role and two custom roles and an empty organization; that empty *)
(* organization as the root itself; a project as the root.                 *)

Resources == {"cr", "o1", "r1", "fA", "fB", "pA", "pB", "p2", "d1",
              "cr2", "oR", "r2", "r3", "r4", "oS", "pR",
              "cr3", "bX", "oT", "k1", "k2", "k3", "k4"}

\* Threads of control: the caller's, and one per dispatched callback, named
\* by the resource whose try_accept it runs; at most Cardinality(Workers)
\* callbacks run at a time.
Threads == {MainThread} \cup Resources

composite_children == << <<"organizations", "1">>, <<"projects", "p2">> >>

\* The resource object that stands for a configured root id.
RootIdRes(root_id) ==
    CASE root_id = <<"organizations", "1">>   -> "o1"
      [] root_id = <<"organizations", "8">>   -> "oR"
      [] root_id = <<"organizations", "111">> -> "oS"
      [] root_id = <<"projects", "bad">>      -> "pR"
      [] root_id = <<"buckets", "b1">>        -> "bX"
      [] root_id = <<"organizations", "9">>   -> "oT"
      [] OTHER                                -> "p2"

\* The configured root id a resource object stands for.
RootIdOf(r) ==
    CASE r = "o1" -> <<"organizations", "1">>
      [] r = "oR" -> <<"organizations", "8">>
      [] r = "oS" -> <<"organizations", "111">>
      [] r = "pR" -> <<"projects", "bad">>
      [] r = "bX" -> <<"buckets", "b1">>
      [] r = "oT" -> <<"organizations", "9">>
      [] OTHER    -> <<"projects", "p2">>

ApiData(r) ==
    CASE r = "o1" -> [name |-> <<"organizations", "1">>]
      [] r = "r1" -> [name |-> <<"roles", "viewer">>]
      [] r = "fA" -> [name |-> <<"folders", "A">>]
      [] r = "fB" -> [name |-> <<"folders", "B">>]
      [] r = "pA" -> [name |-> <<"pa">>, projectId |-> <<"p42">>,
                      projectNumber |-> <<"42">>, lifecycleState |-> <<"ACTIVE">>]
      [] r = "pB" -> [name |-> <<"pb">>, projectId |-> <<"p43">>,
                      projectNumber |-> <<"43">>,
                      lifecycleState |-> <<"DELETE_REQUESTED">>]
      [] r = "p2" -> [name |-> <<"p2">>, projectId |-> <<"p2">>,
                      projectNumber |-> <<"22">>, lifecycleState |-> <<"ACTIVE">>]
      [] r = "d1" -> [id |-> <<"p42:ds">>, datasetReference |-> <<"ds">>]
      [] r = "oR" -> [name |-> <<"organizations", "8">>]
      [] r = "oS" -> [name |-> <<"organizations", "111">>]
      [] r = "r2" -> [name |-> <<"roles", "editor">>]
      [] r = "r3" -> [name |-> <<"organizations", "8", "roles", "auditor">>]
      [] r = "r4" -> [name |-> <<"organizations", "8", "roles", "operator">>]
      [] r = "pR" -> [name |-> <<"bad">>, projectId |-> <<"bad">>,
                      projectNumber |-> <<"77">>, lifecycleState |-> <<"ACTIVE">>]
      [] r = "cr2" -> [name |-> <<"Composite Root">>,
                       composite_children |-> << <<"organizations", "8">>,
                                                 <<"organizations", "111">> >>]
      [] r = "cr3" -> [name |-> <<"Composite Root">>,
                       composite_children |-> << <<"buckets", "b1">>,
                                                 <<"organizations", "9">> >>]
      [] r = "oT" -> [name |-> <<"organizations", "9">>]
      [] OTHER    -> [name |-> <<"Composite Root">>,
                      composite_children |-> composite_children]

\* The items the API method of iterator `it` lists under parent p.
ApiItems(p, it) ==
    CASE p = "o1" /\ it = "IamOrganizationCuratedRoleIterator" -> <<"r1">>
      [] p = "o1" /\ it = "ResourceManagerFolderIterator"      -> <<"fA", "fB">>
      [] p = "fA" /\ it = "ResourceManagerProjectIterator"     -> <<"pA">>
      [] p = "fB" /\ it = "ResourceManagerProjectIterator"     -> <<"pB">>
      [] p = "oR" /\ it = "IamOrganizationCuratedRoleIterator" -> <<"r2">>
      [] p = "oR" /\ it = "IamOrganizationRoleIterator"        -> <<"r3", "r4">>
      [] OTHER                                                 -> <<>>

\* The resource whose iterator yields r (r itself for the root).
WorldParent(r) ==
    CASE r \in {"o1", "p2"} -> "cr"
      [] r \in {"r1", "fA", "fB"} -> "o1"
      [] r = "pA" -> "fA"
      [] r = "pB" -> "fB"
      [] r \in {"oR", "oS"} -> "cr2"
      [] r \in {"bX", "oT"} -> "cr3"
      [] r \in {"r2", "r3", "r4"} -> "oR"
      [] r = "d1" -> "pA"
      [] OTHER    -> r

RECURSIVE WorldAncestors(_)
WorldAncestors(r) ==
    IF WorldParent(r) = r THEN {}
    ELSE {WorldParent(r)} \cup WorldAncestors(WorldParent(r))

\* Errors the client or an iterator body can raise while listing.
IterErrors ==
    { ApiExecutionError(<<"instance", "scheduled", "for", "deletion">>),
      ApiExecutionError(<<"Quota", "exceeded">>),
      ResourceNotSupported(<<"no", "such", "method">>),
      OtherError(<<"Not", "found">>) }

FetchErrors == { ApiExecutionError(<<"Not", "found">>) }

VisitError == OtherError(<<"storage", "write", "failed">>)

\* config.variables['excluded_resources'] of the runs explored
ExclusionChoices == { {}, {"project/42", "folder/B"}, {"organization/1"} }

-----------------------------------------------------------------------------
VARIABLES
    excluded,      \* visitor.config.variables['excluded_resources']
    visitorQueries, \* whether visitor.visit queries the side-band getters
    res,           \* Resource objects constructed so far: cls, _data, _root
    stackOf,       \* Resource._stack (bound |-> FALSE while it is None)
    warning,       \* Resource._warning
    cache,         \* the __cached_<name> attributes of each Resource
    enabledNames,  \* ResourceManagerProject._enabled_service_names
    fullName,      \* Resource._full_resource_name ("" while unset)
    apiCalls,      \* number of client calls issued per resource and method
    threads,       \* call stack of accept activations of each thread
    queue,         \* callbacks handed to visitor.dispatch, not yet started
    sink,          \* number of visitor.visit calls per resource
    errors,        \* visitor.on_child_error calls, per reporting resource
    iterLog,       \* per resource: the iterators driven and how each ended
    visitRaised,   \* resources whose visitor.visit call raised
    finished,      \* resources whose accept ran to its end
    skipped,       \* resources whose accept returned at the exclusion check
    escaped,       \* exceptions that left try_accept or the root's accept
    failures,      \* failures injected so far
    probe          \* the getter calls made on the instances outside a crawl

vars == <<excluded, visitorQueries, res, stackOf, warning, cache, enabledNames, fullName,
          apiCalls, threads, queue, sink, errors, iterLog, visitRaised,
          finished, skipped, escaped, failures, probe>>

-----------------------------------------------------------------------------
(* Resource: data access, key, parent, repr, full resource name *)

NoneRes == "None"

None == [tag |-> "None"]
Dict(d) == [tag |-> "dict", d |-> d]
EmptyDict == Dict(EmptyFn)

\* bool(v) of a cached value
Truthy(v) == v.tag = "dict" /\ DOMAIN v.d # {}

\* Resource.__getitem__
GetItem(r, field) ==
    IF field \in DOMAIN res[r].data THEN Ok(res[r].data[field])
    ELSE Err(KeyErrorOf(field, r))

\* '{}'.format(self[field]) of a key() method; g is the result of self[field]
KeyFrom(g) == IF g.ok THEN Ok(JoinSlash(g.val)) ELSE g

\* self['name'].split('/', 1)[-1]
KeyFromName(g) == IF g.ok THEN Ok(SplitFirstLast(g.val)) ELSE g

\* key() of the resource classes
key(r) ==
    CASE res[r].cls = "composite_root"             -> Ok("root")
      [] res[r].cls \in {"organization", "folder"} -> KeyFromName(GetItem(r, "name"))
      [] res[r].cls = "project"                    -> KeyFrom(GetItem(r, "projectId"))
      [] res[r].cls \in {"iam_curated_role", "iam_role"}
                                                   -> KeyFrom(GetItem(r, "name"))
      [] res[r].cls = "dataproc_cluster"           -> KeyFrom(GetItem(r, "clusterUuid"))
      [] OTHER                                     -> KeyFrom(GetItem(r, "id"))

parent_bottomOfStack(r) ==
    IF res[r].cls = "iam_curated_role" THEN Ok(NoneRes)
    ELSE IF res[r].root THEN Ok(r)
    ELSE IF ~stackOf[r].bound
         THEN Err([cls |-> "TypeError", msg |-> <<"'NoneType'", "object", "is",
                                                    "not", "subscriptable">>])
    ELSE IF Len(stackOf[r].s) = 0 THEN Ok(NoneRes)
    ELSE Ok(Head(stackOf[r].s))

\* Resource.parent, and IamCuratedRole.parent which is always None
parent(r) ==
    IF res[r].cls = "iam_curated_role" THEN Ok(NoneRes)
    ELSE IF res[r].root THEN Ok(r)
    ELSE IF ~stackOf[r].bound
         THEN Err([cls |-> "TypeError", msg |-> <<"'NoneType'", "object", "is",
                                                    "not", "subscriptable">>])
    ELSE IF Len(stackOf[r].s) = 0 THEN Ok(NoneRes)
    ELSE Ok(Last(stackOf[r].s))

\* The text __repr__ formats once the parent's type() and key() k are known.
ReprText(r, pv, k) ==
    IF ~k.ok THEN k
    ELSE Ok(<<res[r].cls, "<data=", r, "parent_resource_type=",
              TypeOf(res[pv].cls), "parent_resource_id=", k.val, ">">>)

\* __repr__ given p, the result of self.parent()
ReprOfParent(r, p) ==
    IF ~p.ok THEN p
    ELSE IF p.val = NoneRes THEN Err(AttributeErrorOf("type"))
    ELSE CHOOSE u \in {ReprText(r, p.val, k) : k \in {key(p.val)}} : TRUE

\* Resource.__repr__
Repr(r) == CHOOSE u \in {ReprOfParent(r, p) : p \in {parent(r)}} : TRUE

\* utils.to_type_name
to_type_name(type, k) == type \o "/" \o k

\* utils.to_full_resource_name
to_full_resource_name(parent_full_res_name, type_name) ==
    IF parent_full_res_name = "" THEN type_name
    ELSE parent_full_res_name \o "/" \o type_name

SetFullName_ownOnly(r, k, pf) ==
    IF ~pf.ok THEN pf
    ELSE [ok |-> TRUE,
          val |-> to_type_name(TypeOf(res[r].cls), k.val),
          fn |-> [pf.fn EXCEPT ![r] = to_type_name(TypeOf(res[r].cls), k.val)]]

\* The end of get_full_resource_name: store and return the name built from
\* the parent's full name pf and the own key k.
SetFullName(r, k, pf) ==
    IF ~pf.ok THEN pf
    ELSE [ok |-> TRUE,
          val |-> to_full_resource_name(pf.val, to_type_name(TypeOf(res[r].cls), k.val)),
          fn |-> [pf.fn EXCEPT ![r] =
                    to_full_resource_name(pf.val,
                        to_type_name(TypeOf(res[r].cls), k.val))]]

NameUnset_always(v) == TRUE

\* `if not self._full_resource_name:`
NameUnset(v) == v = ""

\* Resource.get_full_resource_name; FN is the _full_resource_name of every
\* resource, fn the same after the call (the call fills the ancestors' too).
\* FullNameFrom is the body once key() gave k and parent() gave p.
RECURSIVE get_full_resource_name(_, _), FullNameFrom(_, _, _, _)
get_full_resource_name(r, FN) ==
    IF ~NameUnset(FN[r]) THEN [ok |-> TRUE, val |-> FN[r], fn |-> FN]
    ELSE CHOOSE u \in {FullNameFrom(r, FN, k, p) :
                          k \in {key(r)}, p \in {parent(r)}} : TRUE

FullNameFrom(r, FN, k, p) ==
    IF ~k.ok THEN [ok |-> FALSE, exc |-> k.exc, fn |-> FN]
    ELSE IF res[r].root THEN SetFullName(r, k, [ok |-> TRUE, val |-> "", fn |-> FN])
    ELSE IF ~p.ok THEN [ok |-> FALSE, exc |-> p.exc, fn |-> FN]
    ELSE IF p.val = NoneRes
    THEN SetFullName(r, k, [ok |-> TRUE, val |-> "", fn |-> FN])
    ELSE CHOOSE u \in {SetFullName(r, k, pf) :
                          pf \in {get_full_resource_name(p.val, FN)}} : TRUE

get_warning_last(r, W) == IF W[r] = <<>> THEN <<>> ELSE Last(W[r])

\* Resource.get_warning
get_warning(r, W) == JoinLines(W[r])

IsBenign_never(e) == FALSE

\* The benign-error test of accept's except clause.
IsBenign(e) ==
    /\ e.cls = "ApiExecutionError"
    /\ \E error_str \in skip_errors : Contains(e.msg, error_str)

\* 'Exception raised processing %s: %s' % (self, e), rep being repr(self)
ErrMsgOf(rep, e) ==
    IF ~rep.ok THEN rep
    ELSE Ok(<<"Exception", "raised", "processing">> \o rep.val \o <<":">> \o e.msg)

ErrMsg(r, e) == CHOOSE u \in {ErrMsgOf(rep, e) : rep \in {Repr(r)}} : TRUE

\* The identifier set of accept: k is the result of key(), n of
\* self['projectNumber'].
ReprSet(type, k, n) ==
    IF ~k.ok THEN k
    ELSE IF type = "project"
    THEN IF ~n.ok THEN n
         ELSE Ok({ type \o "/" \o k.val, type \o "/" \o JoinSlash(n.val) })
    ELSE Ok({ type \o "/" \o k.val })

cur_resource_repr_keyOnly(r) ==
    IF ~key(r).ok THEN key(r)
    ELSE Ok({ TypeOf(res[r].cls) \o "/" \o key(r).val })

\* The identifiers accept compares with excluded_resources.
cur_resource_repr(r) ==
    CHOOSE u \in {ReprSet(TypeOf(res[r].cls), k, GetItem(r, "projectNumber")) :
                     k \in {key(r)}} : TRUE

-----------------------------------------------------------------------------
(* Side-band getters: the @cached decorator and the bodies it wraps.       *)
(* A body's result says what it returned or raised, the warnings it added  *)
(* and the number of client calls it issued; `outcome` is what the client  *)
(* call returns or raises if it is reached, `client` is FALSE for a getter *)
(* called without a client (client=None).                                  *)

SideBandNames == {"iam_policy", "billing_info", "enabled_apis", "dataset_policy"}

Returned(v, warns, calls) == [ok |-> TRUE, val |-> v, warns |-> warns, calls |-> calls]
Raised(e, warns, calls) == [ok |-> FALSE, exc |-> e, warns |-> warns, calls |-> calls]

cached_unlessNone(field_name, CR, body) ==
    IF field_name \in DOMAIN CR /\ CR[field_name] # None
    THEN [ok |-> TRUE, val |-> CR[field_name], cacheR |-> CR,
          warns |-> <<>>, calls |-> 0]
    ELSE IF body.ok
    THEN [ok |-> TRUE, val |-> body.val,
          cacheR |-> (field_name :> body.val) @@ CR,
          warns |-> body.warns, calls |-> body.calls]
    ELSE [ok |-> FALSE, exc |-> body.exc, cacheR |-> CR,
          warns |-> body.warns, calls |-> body.calls]

\* wrapper() of cached(field_name): CR is the instance's cached attributes.
cached(field_name, CR, body) ==
    IF field_name \in DOMAIN CR
    THEN [ok |-> TRUE, val |-> CR[field_name], cacheR |-> CR,
          warns |-> <<>>, calls |-> 0]
    ELSE IF body.ok
    THEN [ok |-> TRUE, val |-> body.val,
          cacheR |-> (field_name :> body.val) @@ CR,
          warns |-> body.warns, calls |-> body.calls]
    ELSE [ok |-> FALSE, exc |-> body.exc, cacheR |-> CR,
          warns |-> body.warns, calls |-> body.calls]

WarnAndReturnNone_silent(k, label, e) == Returned(None, <<>>, 1)

\* The except clause of a getter, once key() gave k for the warning text.
WarnAndReturnNone(k, label, e) ==
    IF k.ok THEN Returned(None, << label \o <<k.val, ":">> \o e.msg >>, 1)
    ELSE Raised(k.exc, <<>>, 1)

\* try: client.fetch_...(args) / except (ApiExecutionError,
\* ResourceNotSupported): log, add_warning(err_msg), return None
FetchOrWarn(r, method, client, outcome, label) ==
    IF ~client THEN Raised(AttributeErrorOf(method), <<>>, 0)
    ELSE IF outcome.ok THEN Returned(outcome.val, <<>>, 1)
    ELSE IF outcome.exc.cls \in {"ApiExecutionError", "ResourceNotSupported"}
    THEN WarnAndReturnNone(key(r), label, outcome.exc)
    ELSE Raised(outcome.exc, <<>>, 1)

\* ResourceManagerOrganization.get_iam_policy, ResourceManagerFolder.get_iam_policy
HierarchyGetIamPolicy(r, client, outcome) ==
    IF client /\ "name" \notin DOMAIN res[r].data
    THEN Raised(KeyErrorOf("name", r), <<>>, 0)
    ELSE FetchOrWarn(r, "fetch_crm_" \o TypeOf(res[r].cls) \o "_iam_policy",
                     client, outcome,
                     <<"Could", "not", "get", "IAM", "policy", "for",
                       TypeOf(res[r].cls)>>)

\* self['lifecycleState'] == 'ACTIVE', g being the result of the lookup
IsActive(g) == IF g.ok THEN Ok(g.val = <<"ACTIVE">>) ELSE g

enumerable_always(r) == Ok(TRUE)

\* ResourceManagerProject.enumerable
enumerable(r) == IsActive(GetItem(r, "lifecycleState"))

\* get_billing_info after `if self.enumerable():` gave en
BillingInfoIf(r, en, client, outcome) ==
    IF ~en.ok THEN Raised(en.exc, <<>>, 0)
    ELSE IF en.val
    THEN IF client /\ "projectNumber" \notin DOMAIN res[r].data
         THEN Raised(KeyErrorOf("projectNumber", r), <<>>, 0)
         ELSE FetchOrWarn(r, "fetch_billing_project_info", client, outcome,
                          <<"Could", "not", "get", "Billing", "Info", "for",
                            "project">>)
    ELSE Returned(EmptyDict, <<>>, 0)

\* ResourceManagerProject.get_billing_info (the decorated body)
ProjectGetBillingInfo(r, client, outcome) ==
    CHOOSE u \in {BillingInfoIf(r, en, client, outcome) :
                     en \in {enumerable(r)}} : TRUE

\* get_iam_policy of a project after `if self.enumerable():` gave en
ProjectIamPolicyIf(r, en, client, outcome) ==
    IF ~en.ok THEN Raised(en.exc, <<>>, 0)
    ELSE IF en.val
    THEN IF client /\ "projectNumber" \notin DOMAIN res[r].data
         THEN Raised(KeyErrorOf("projectNumber", r), <<>>, 0)
         ELSE FetchOrWarn(r, "fetch_crm_project_iam_policy", client, outcome,
                          <<"Could", "not", "get", "IAM", "policy", "for",
                            "project">>)
    ELSE Returned(EmptyDict, <<>>, 0)

\* ResourceManagerProject.get_iam_policy (the decorated body)
ProjectGetIamPolicy(r, client, outcome) ==
    CHOOSE u \in {ProjectIamPolicyIf(r, en, client, outcome) :
                     en \in {enumerable(r)}} : TRUE

\* A list value; the services of get_enabled_apis are kept by their
\* config name.
List(l) == [tag |-> "list", l |-> l]

\* frozenset(api.get('config', {}).get('name') for api in enabled_apis)
ServiceNames(v) == {v.l[i] : i \in 1..Len(v.l)}

\* The except clause of get_enabled_apis, once key() gave k: the warning is
\* added and the body goes on to return the empty enabled_apis.
WarnAndReturnEmpty(k, label, e) ==
    IF k.ok THEN Returned(List(<<>>), << label \o <<k.val, ":">> \o e.msg >>, 1)
    ELSE Raised(k.exc, <<>>, 1)

\* get_enabled_apis after `if self.enumerable():` gave en
EnabledApisIf(r, en, client, outcome) ==
    IF ~en.ok THEN Raised(en.exc, <<>>, 0)
    ELSE IF ~en.val THEN Returned(List(<<>>), <<>>, 0)
    ELSE IF ~client
    THEN Raised(AttributeErrorOf("fetch_services_enabled_apis"), <<>>, 0)
    ELSE IF "projectNumber" \notin DOMAIN res[r].data
    THEN Raised(KeyErrorOf("projectNumber", r), <<>>, 0)
    ELSE IF outcome.ok THEN Returned(outcome.val, <<>>, 1)
    ELSE IF outcome.exc.cls \in {"ApiExecutionError", "ResourceNotSupported"}
    THEN WarnAndReturnEmpty(key(r),
             <<"Could", "not", "get", "Enabled", "APIs", "for", "project">>,
             outcome.exc)
    ELSE Raised(outcome.exc, <<>>, 1)

\* ResourceManagerProject.get_enabled_apis (the decorated body)
ProjectGetEnabledApis(r, client, outcome) ==
    EnabledApisIf(r, enumerable(r), client, outcome)

\* iam_helpers.convert_iam_to_bigquery_policy
convert_iam_to_bigquery_policy(iam_policy) ==
    Dict([access |-> "bindings" \in DOMAIN iam_policy.d, derived |-> TRUE])

\* iam_helpers.convert_bigquery_policy_to_iam
convert_bigquery_policy_to_iam(dataset_policy, project_id) ==
    Dict([bindings |-> "access" \in DOMAIN dataset_policy.d, derived |-> TRUE])

set_cache_never(CR, field_name, value) == CR

\* BigqueryDataSet._set_cache on the cached attributes CR
set_cache(CR, field_name, value) ==
    IF field_name \notin DOMAIN CR \/ CR[field_name] = None
    THEN (field_name :> value) @@ CR
    ELSE CR

\* The arguments of the dataset fetches: self.parent()['projectId'],
\* self.parent()['projectNumber'], self['datasetReference']['datasetId'];
\* p is the result of self.parent().
DatasetArgs(r, p) ==
    IF ~p.ok THEN p
    ELSE IF p.val = NoneRes
    THEN Err([cls |-> "TypeError", msg |-> <<"'NoneType'", "object", "is",
                                             "not", "subscriptable">>])
    ELSE IF "projectId" \notin DOMAIN res[p.val].data
    THEN Err(KeyErrorOf("projectId", p.val))
    ELSE IF "projectNumber" \notin DOMAIN res[p.val].data
    THEN Err(KeyErrorOf("projectNumber", p.val))
    ELSE IF "datasetReference" \notin DOMAIN res[r].data
    THEN Err(KeyErrorOf("datasetReference", r))
    ELSE Ok(res[p.val].data["projectId"])

\* The except clause of the dataset getters: k is self.key(), pk is
\* self.parent().key().
DatasetWarn(k, pk, label, e) ==
    IF ~k.ok THEN Raised(k.exc, <<>>, 1)
    ELSE IF ~pk.ok THEN Raised(pk.exc, <<>>, 1)
    ELSE Returned(None, << label \o <<k.val, "in", "project", pk.val, ":">>
                           \o e.msg >>, 1)

\* The try statement of BigqueryDataSet.get_iam_policy and
\* get_dataset_policy, args being the result of evaluating the arguments.
DatasetFetch(r, args, client, outcome, label) ==
    IF ~client THEN Raised(AttributeErrorOf("fetch_bigquery"), <<>>, 0)
    ELSE IF ~args.ok THEN Raised(args.exc, <<>>, 0)
    ELSE IF outcome.ok THEN Returned(outcome.val, <<>>, 1)
    ELSE IF outcome.exc.cls \in {"ApiExecutionError", "ResourceNotSupported"}
    THEN DatasetWarn(key(r), key(parent(r).val), label, outcome.exc)
    ELSE Raised(outcome.exc, <<>>, 1)

\* The decorated bodies of the two dataset getters
DatasetBody(r, name, client, outcome) ==
    DatasetFetch(r, DatasetArgs(r, parent(r)), client, outcome,
                 IF name = "iam_policy"
                 THEN <<"Could", "not", "get", "Dataset", "IAM", "Policy", "for">>
                 ELSE <<"Could", "not", "get", "Dataset", "Policy", "for">>)

\* The attributes after the body ran: a fetch that succeeded converts the
\* policy and hands it to _set_cache under the sibling's name.
DatasetSibling(name, CR, body) ==
    IF body.ok /\ body.calls = 1 /\ body.warns = <<>>
    THEN IF name = "iam_policy"
         THEN set_cache(CR, "dataset_policy",
                        convert_iam_to_bigquery_policy(body.val))
         ELSE set_cache(CR, "iam_policy",
                        convert_bigquery_policy_to_iam(body.val, <<>>))
    ELSE CR

\* The wrapper around a dataset getter whose body gave `body`
DatasetCached(name, CR, body) ==
    IF name \in DOMAIN CR THEN cached(name, CR, body)
    ELSE cached(name, DatasetSibling(name, CR, body), body)

\* BigqueryDataSet.get_iam_policy and BigqueryDataSet.get_dataset_policy
DatasetGetter(r, name, CR, client, outcome) ==
    CHOOSE u \in {DatasetCached(name, CR, body) :
                     body \in {DatasetBody(r, name, client, outcome)}} : TRUE

\* self.parent().key() of an except clause, p being the result of parent()
ParentKey(p) ==
    IF ~p.ok THEN p
    ELSE IF p.val = NoneRes THEN Err(AttributeErrorOf("key"))
    ELSE key(p.val)

\* The except clause of DataprocCluster.get_iam_policy: k is self.key(), pk
\* is self.parent().key(), e the exception caught, calls the client calls
\* made before it was raised.
ClusterWarn(k, pk, e, calls) ==
    IF ~k.ok THEN Raised(k.exc, <<>>, calls)
    ELSE IF ~pk.ok THEN Raised(pk.exc, <<>>, calls)
    ELSE Returned(None,
                  << <<"Could", "not", "get", "Dataproc", "cluster", "IAM",
                       "Policy", "for", k.val, "in", "project", pk.val, ":">>
                     \o (IF e.cls = "TypeError"
                         THEN <<"Cluster", "has", "no", "labels.">>
                         ELSE e.msg) >>,
                  calls)

RegionOf_global(g) == Ok(<<"global">>)

\* self['labels']['goog-dataproc-location'], g being the result of
\* self['labels']
RegionOf(g) ==
    IF ~g.ok THEN g
    ELSE IF g.val = None
    THEN Err([cls |-> "TypeError", msg |-> <<"'NoneType'", "object", "is",
                                             "not", "subscriptable">>])
    ELSE IF "goog-dataproc-location" \notin DOMAIN g.val.d
    THEN Err([cls |-> "KeyError", msg |-> <<"goog-dataproc-location">>])
    ELSE Ok(g.val.d["goog-dataproc-location"])

\* The try block of DataprocCluster.get_iam_policy, region being the result
\* of the label lookup: what it returns, or the exception it raises with the
\* number of client calls made.
ClusterFetch(r, region, client, outcome) ==
    IF ~region.ok THEN [ok |-> FALSE, exc |-> region.exc, calls |-> 0]
    ELSE IF "projectId" \notin DOMAIN res[r].data
    THEN [ok |-> FALSE, exc |-> KeyErrorOf("projectId", r), calls |-> 0]
    ELSE IF "clusterName" \notin DOMAIN res[r].data
    THEN [ok |-> FALSE, exc |-> KeyErrorOf("clusterName", r), calls |-> 0]
    ELSE IF ~client
    THEN [ok |-> FALSE, calls |-> 0,
          exc |-> AttributeErrorOf("fetch_dataproc_cluster_iam_policy")]
    ELSE IF outcome.ok THEN [ok |-> TRUE, val |-> outcome.val, calls |-> 1]
    ELSE [ok |-> FALSE, exc |-> outcome.exc, calls |-> 1]

\* The exceptions the except clause of DataprocCluster.get_iam_policy names
ClusterCaught == {"ApiExecutionError", "ResourceNotSupported", "KeyError",
                  "TypeError"}

\* DataprocCluster.get_iam_policy after its try block gave f
ClusterAfterTry(r, f) ==
    IF f.ok THEN Returned(f.val, <<>>, f.calls)
    ELSE IF f.exc.cls \in ClusterCaught
    THEN ClusterWarn(key(r), ParentKey(parent(r)), f.exc, f.calls)
    ELSE Raised(f.exc, <<>>, f.calls)

\* DataprocCluster.get_iam_policy (the decorated body)
DataprocGetIamPolicy(r, client, outcome) ==
    CHOOSE u \in {ClusterAfterTry(r, f) :
                     f \in {ClusterFetch(r, RegionOf(GetItem(r, "labels")),
                                         client, outcome)}} : TRUE

\* get_<name>(client) of resource r, through the decorator; resources of a
\* class without an override get the template of Resource, which returns None.
GetterBody(r, name, client, outcome) ==
    IF name = "iam_policy" /\ res[r].cls \in {"organization", "folder"}
    THEN HierarchyGetIamPolicy(r, client, outcome)
    ELSE IF name = "iam_policy" /\ res[r].cls = "project"
    THEN ProjectGetIamPolicy(r, client, outcome)
    ELSE IF name = "iam_policy" /\ res[r].cls = "dataproc_cluster"
    THEN DataprocGetIamPolicy(r, client, outcome)
    ELSE IF name = "billing_info" /\ res[r].cls = "project"
    THEN ProjectGetBillingInfo(r, client, outcome)
    ELSE IF name = "enabled_apis" /\ res[r].cls = "project"
    THEN ProjectGetEnabledApis(r, client, outcome)
    ELSE Returned(None, <<>>, 0)

Getter(r, name, CR, client, outcome) ==
    IF res[r].cls = "dataset" /\ name \in {"iam_policy", "dataset_policy"}
    THEN DatasetGetter(r, name, CR, client, outcome)
    ELSE CHOOSE u \in {cached(name, CR, body) :
                          body \in {GetterBody(r, name, client, outcome)}} : TRUE

\* billing_enabled given g, the result of self.get_billing_info()
BillingEnabledFrom(g) ==
    IF ~g.ok THEN [ok |-> FALSE, exc |-> g.exc, cacheR |-> g.cacheR]
    ELSE IF Truthy(g.val)
    THEN [ok |-> TRUE, cacheR |-> g.cacheR,
          val |-> IF "billingEnabled" \in DOMAIN g.val.d
                  THEN g.val.d["billingEnabled"] ELSE FALSE]
    ELSE [ok |-> TRUE, val |-> TRUE, cacheR |-> g.cacheR]

\* ResourceManagerProject.billing_enabled: get_billing_info() without client
billing_enabled(r, CR) ==
    CHOOSE u \in {BillingEnabledFrom(g) :
                     g \in {Getter(r, "billing_info", CR, FALSE, Ok(None))}} : TRUE

is_api_enabled_strict(r, service_name) ==
    enabledNames[r].set /\ service_name \in enabledNames[r].names

\* ResourceManagerProject.is_api_enabled
is_api_enabled(r, service_name) ==
    IF enabledNames[r].set /\ enabledNames[r].names # {}
    THEN service_name \in enabledNames[r].names
    ELSE TRUE

\* `self.billing_enabled() and self.is_api_enabled(...)`, b being the former
AndApiEnabled(r, b, service_name) ==
    IF ~b.ok THEN b
    ELSE [b EXCEPT !.val = b.val /\ is_api_enabled(r, service_name)]

\* ResourceManagerProject.compute_api_enabled
compute_api_enabled(r, CR) ==
    CHOOSE u \in {AndApiEnabled(r, b, "compute.googleapis.com") :
                     b \in {billing_enabled(r, CR)}} : TRUE

\* ResourceManagerProject.container_api_enabled
container_api_enabled(r, CR) ==
    CHOOSE u \in {AndApiEnabled(r, b, "container.googleapis.com") :
                     b \in {billing_enabled(r, CR)}} : TRUE

\* The data a successful side-band fetch returns.
FetchedValue(name) ==
    IF name = "billing_info" THEN Dict([billingEnabled |-> TRUE])
    ELSE IF name = "enabled_apis" THEN List(<<"compute.googleapis.com">>)
    ELSE IF name = "dataset_policy" THEN Dict([access |-> TRUE])
    ELSE Dict([bindings |-> TRUE])

-----------------------------------------------------------------------------
(* from_root_id and the fetch class methods *)

root_map_swapped == << <<"organizations", "organization">>,
                       <<"projects", "folder">>,
                       <<"folders", "project">> >>

\* root_map of from_root_id, in its iteration order
root_map == << <<"organizations", "organization">>,
               <<"projects", "project">>,
               <<"folders", "folder">> >>

ClassLabel(cls) ==
    CASE cls = "organization" -> "Organization"
      [] cls = "project"      -> "Project"
      [] OTHER                -> "Folder"

\* A result together with the client methods that were called for it.
Called(x, methods) == [calls |-> methods] @@ x

fetch_unwarned(cls, resource_key, root, outcome) ==
    Called(IF outcome.ok
           THEN Ok([cls |-> cls, data |-> outcome.val, root |-> root,
                    warns |-> <<>>])
           ELSE IF outcome.exc.cls \in {"ApiExecutionError", "ResourceNotSupported"}
           THEN Ok([cls |-> cls, data |-> [name |-> resource_key], root |-> root,
                    warns |-> <<>>])
           ELSE Err(outcome.exc),
           <<"fetch_crm_" \o cls>>)

\* <Class>.fetch(client, resource_key, root): outcome is what the client's
\* fetch_crm_<type> returns or raises.
fetch(cls, resource_key, root, outcome) ==
    Called(IF outcome.ok
           THEN Ok([cls |-> cls, data |-> outcome.val, root |-> root,
                    warns |-> <<>>])
           ELSE IF outcome.exc.cls \in {"ApiExecutionError", "ResourceNotSupported"}
           THEN Ok([cls |-> cls, data |-> [name |-> resource_key], root |-> root,
                    warns |-> << <<"Unable", "to", "fetch", ClassLabel(cls),
                                   "from", "API">> \o resource_key \o <<":">>
                                 \o outcome.exc.msg
                                 \o <<",", "creating", "fake", "resource.">> >>])
           ELSE Err(outcome.exc),
           <<"fetch_crm_" \o cls>>)

\* The pieces a root id's first segment is read in: the text up to a
\* registered prefix, and what follows it.
Chunks(segment) ==
    CASE segment = "organizationsX" -> <<"organizations", "X">>
      [] segment = "projects-old"   -> <<"projects", "-old">>
      [] OTHER                      -> <<segment>>

StartsWith_any(root_id, prefix) == TRUE

\* root_id.startswith(prefix)
StartsWith(root_id, prefix) ==
    root_id # <<>> /\ Head(Chunks(Head(root_id))) = prefix

\* from_root_id once the entries of root_map whose prefix matches are known
FromRootIdHits(hits, root_id, root, outcome) ==
    IF hits = {}
    THEN Called(Err(OtherError(<<"Unsupported", "root", "id,", "must", "be",
                                 "one", "of">>)), <<>>)
    ELSE fetch(root_map[CHOOSE i \in hits : \A j \in hits : i <= j][2],
               root_id, root, outcome)

from_root_id(root_id, root, outcome) ==
    FromRootIdHits({i \in 1..Len(root_map) : StartsWith(root_id, root_map[i][1])},
                   root_id, root, outcome)

-----------------------------------------------------------------------------
(* Resource.accept and Resource.try_accept                                 *)
(*                                                                         *)
(* A frame is one activation of accept: the resource, whether it was       *)
(* entered through try_accept (via = "try") or called directly by the      *)
(* crawl's caller (via = "accept"), the stack argument, and its position:  *)
(* "check" (exclusion check) or "iter" (driving iterator number `it`, `pos` *)
(* items yielded so far, w0 warnings when the iterator was started).       *)

Frame_descendFirst(r, via, stk) ==
    [r |-> r, via |-> via, stk |-> stk,
     pc |-> IF via = "accept" THEN "iter" ELSE "check",
     it |-> IF via = "accept" THEN 1 ELSE 0, pos |-> 0, w0 |-> 0]

Frame(r, via, stk) ==
    [r |-> r, via |-> via, stk |-> stk, pc |-> "check", it |-> 0, pos |-> 0,
     w0 |-> 0]

Top(t) == Last(threads[t])

ReplaceTop(frames, f) == [frames EXCEPT ![Len(frames)] = f]

new_stack_withoutSelf(stack, self) == stack

\* new_stack = stack + [self]
new_stack(stack, self) == stack \o <<self>>

AfterExclusionCheck_blocks(matched) == IF matched THEN "wait" ELSE "visit"

\* Where accept goes after the exclusion check.
AfterExclusionCheck(matched) == IF matched THEN "return" ELSE "visit"

\* How accept hands a yielded child on: run try_accept here, dispatch it.
RunInline_always(cls) == TRUE

RunInline(cls) == ~should_dispatch(cls)
RunDispatched(cls) == should_dispatch(cls)

HasWarning_always(ws) == TRUE

\* `if self._warning:` at the end of accept
HasWarning(ws) == ws # <<>>

LogEntry(f, out, W) ==
    [it |-> ContainsOf(res[f.r].cls)[f.it], out |-> out, n |-> f.pos,
     w0 |-> f.w0, w1 |-> Len(W[f.r])]

EndOut == [kind |-> "end"]
UnsupportedOut == [kind |-> "unsupported"]
RaiseOut(e, src) == [kind |-> "raise", exc |-> e, src |-> src]

\* The part of the state a raise can change while it unwinds one thread.
Effects == [warning |-> warning, errors |-> errors, fullName |-> fullName,
            iterLog |-> iterLog, finished |-> finished]

\* NextIterator: the loop `for yielder_cls in self._contains` after iterator
\* f.it ended: start the next one, or leave the loop.
\* Return: the end of accept, `if self._warning: on_child_error(...)`;
\* ReturnWith is the same once get_full_resource_name() gave n.
\* HandleLoopError: `except Exception as e` around the iterator loop of the
\* activation on top of `frames`; src tells whether the iterator raised or
\* the loop body did; HandleWith is the same once err_msg was formatted (m).
\* Unwind: exception e leaves the accept on top of `frames`; a try_accept
\* activation reports it, which can raise in turn; UnwindWith is the same
\* once err_msg (m) and get_full_resource_name() (n) were evaluated.
HandledWarnings_onRoot(f, e, S, m) ==
    IF IsBenign(e) \/ ~m.ok THEN S.warning
    ELSE [S.warning EXCEPT ![CHOOSE r \in DOMAIN res : res[r].root] =
             Append(@, m.val)]

\* The warnings after accept's except clause handled e in frame f, m being
\* the result of formatting err_msg
HandledWarnings(f, e, S, m) ==
    IF IsBenign(e) \/ ~m.ok THEN S.warning
    ELSE [S.warning EXCEPT ![f.r] = Append(@, m.val)]

\* The effects after accept's except clause handled e in frame f
HandledWith(f, e, src, S, W1) ==
    [S EXCEPT !.warning = W1,
              !.iterLog[f.r] = Append(@, LogEntry(f, RaiseOut(e, src), W1))]

HandledState(f, e, src, S, m) ==
    CHOOSE S1 \in {HandledWith(f, e, src, S, W1) :
                      W1 \in {HandledWarnings(f, e, S, m)}} : TRUE

RECURSIVE NextIterator(_, _), Return(_, _), ReturnWith(_, _, _),
          HandleLoopError(_, _, _, _), HandleWith(_, _, _, _, _),
          HandleNext(_, _, _, _),
          Unwind(_, _, _), UnwindWith(_, _, _, _, _)
NextIterator(frames, S) ==
    LET f == Last(frames) IN
    IF f.it < Len(ContainsOf(res[f.r].cls))
    THEN [frames |-> ReplaceTop(frames,
                        [f EXCEPT !.pc = "iter", !.it = f.it + 1, !.pos = 0,
                                  !.w0 = Len(S.warning[f.r])]),
          S |-> S, escaped |-> {}]
    ELSE Return(frames, S)

Return(frames, S) ==
    CHOOSE u \in {ReturnWith(frames, S, n) :
                     n \in {get_full_resource_name(Last(frames).r, S.fullName)}} : TRUE

ReturnWith(frames, S, n) ==
    LET f == Last(frames) IN
    IF HasWarning(S.warning[f.r]) /\ ~n.ok
    THEN Unwind(frames, n.exc, S)
    ELSE [frames |-> Front(frames),
          S |-> IF HasWarning(S.warning[f.r])
                THEN [S EXCEPT !.finished = @ \cup {f.r},
                               !.fullName = n.fn,
                               !.errors[f.r] = Append(@,
                                   [name |-> n.val,
                                    payload |-> [kind |-> "warnings",
                                                 text |-> get_warning(f.r, S.warning)]])]
                ELSE [S EXCEPT !.finished = @ \cup {f.r}],
          escaped |-> {}]

HandleLoopError(frames, e, src, S) ==
    CHOOSE u \in {HandleWith(frames, e, src, S, m) :
                     m \in {ErrMsg(Last(frames).r, e)}} : TRUE

HandleWith(frames, e, src, S, m) ==
    CHOOSE u \in {HandleNext(frames, e, m, S1) :
                     S1 \in {HandledState(Last(frames), e, src, S, m)}} : TRUE

HandleNext(frames, e, m, S1) ==
    IF ~IsBenign(e) /\ ~m.ok
    THEN Unwind(frames, m.exc, S1)
    ELSE NextIterator(frames, S1)

Unwind(frames, e, S) ==
    CHOOSE u \in {UnwindWith(frames, e, S, m, n) :
                     m \in {ErrMsg(Last(frames).r, e)},
                     n \in {get_full_resource_name(Last(frames).r, S.fullName)}} : TRUE

UnwindWith(frames, e, S, m, n) ==
    LET f == Last(frames) IN
    IF f.via = "accept"
    THEN [frames |-> <<>>, S |-> S, escaped |-> {[r |-> f.r, exc |-> e]}]
    ELSE IF m.ok /\ n.ok
    THEN [frames |-> Front(frames),
          S |-> [S EXCEPT !.fullName = n.fn,
                          !.errors[f.r] = Append(@,
                              [name |-> n.val,
                               payload |-> [kind |-> "exception", exc |-> e]])],
          escaped |-> {}]
    ELSE IF Len(frames) = 1
    THEN [frames |-> <<>>,
          S |-> IF m.ok THEN [S EXCEPT !.fullName = n.fn] ELSE S,
          escaped |-> {[r |-> f.r, exc |-> IF ~m.ok THEN m.exc ELSE n.exc]}]
    ELSE HandleLoopError(Front(frames), IF ~m.ok THEN m.exc ELSE n.exc, "body",
                         IF m.ok THEN [S EXCEPT !.fullName = n.fn] ELSE S)

\* Install in thread t the outcome of a step of accept.
Apply(t, u) ==
    /\ threads' = [threads EXCEPT ![t] = u.frames]
    /\ warning' = u.S.warning
    /\ errors' = u.S.errors
    /\ fullName' = u.S.fullName
    /\ iterLog' = u.S.iterLog
    /\ finished' = u.S.finished
    /\ escaped' = escaped \cup u.escaped

\* CompositeRootResource.create(root_ids)
CompositeRootCreate(root_ids) ==
    [cls |-> "composite_root",
     data |-> [name |-> <<"Composite Root">>, composite_children |-> root_ids],
     root |-> TRUE, warns |-> <<>>]

\* The root resource a crawl starts from: a composite root over the
\* configured root ids, or from_root_id(client, root_id, root=True) with the
\* client answering or failing.
RootChoices ==
    {[r |-> c, obj |-> CompositeRootCreate(ApiData(c)["composite_children"]),
      fails |-> 0] : c \in {"cr", "cr2", "cr3"}}
    \cup {[r |-> c, obj |-> from_root_id(RootIdOf(c), TRUE, Ok(ApiData(c))).val,
           fails |-> 0] : c \in {"oS", "pR"}}
    \cup {[r |-> c, obj |-> from_root_id(RootIdOf(c), TRUE, Err(e)).val,
           fails |-> 1] : c \in {"oS", "pR"}, e \in FetchErrors}

\* The state when the crawler calls accept(visitor) on the root built as c.
StartCrawl(c) ==
    /\ res = (c.r :> [cls |-> c.obj.cls, data |-> c.obj.data, root |-> c.obj.root])
    /\ stackOf = [r \in Resources |->
                    IF r = c.r THEN [bound |-> TRUE, s |-> <<>>]
                    ELSE [bound |-> FALSE, s |-> <<>>]]
    /\ warning = [r \in Resources |-> IF r = c.r THEN c.obj.warns ELSE <<>>]
    /\ threads = [t \in Threads |->
                    IF t = MainThread THEN <<Frame(c.r, "accept", <<>>)>>
                    ELSE <<>>]
    /\ failures = c.fails

\* The root of the crawl: the one resource built with root=True
RootRes == CHOOSE r \in DOMAIN res : res[r].root

Init ==
    /\ excluded \in ExclusionChoices
    /\ visitorQueries \in BOOLEAN
    /\ \E c \in RootChoices : StartCrawl(c)
    /\ cache = [r \in Resources |-> EmptyFn]
    /\ enabledNames = [r \in Resources |-> [set |-> FALSE, names |-> {}]]
    /\ fullName = [r \in Resources |-> ""]
    /\ apiCalls = [r \in Resources |-> [n \in SideBandNames |-> 0]]
    /\ queue = <<>>
    /\ sink = [r \in Resources |-> 0]
    /\ errors = [r \in Resources |-> <<>>]
    /\ iterLog = [r \in Resources |-> <<>>]
    /\ visitRaised = {}
    /\ finished = {}
    /\ skipped = {}
    /\ escaped = {}
    /\ probe = <<>>

AtCheck(t) == threads[t] # <<>> /\ Top(t).pc = "check"

\* accept, lines 349-354: key() or self['projectNumber'] raises
AcceptKeyError(t) ==
    /\ AtCheck(t)
    /\ \E c \in {cur_resource_repr(Top(t).r)} :
          /\ ~c.ok
          /\ \E u \in {Unwind(threads[t], c.exc, Effects)} : Apply(t, u)
    /\ UNCHANGED <<probe, excluded, visitorQueries, res, stackOf, cache, enabledNames, apiCalls,
                   queue, sink, visitRaised, skipped, failures>>

Matched_never(c) == FALSE

\* cur_resource_repr.intersection(excluded_resources), line 355
Matched(c) == c.val \cap excluded # {}

\* accept, lines 355-356: the resource is excluded
AcceptExcluded(t) ==
    /\ AtCheck(t)
    /\ \E c \in {cur_resource_repr(Top(t).r)} :
          c.ok /\ AfterExclusionCheck(Matched(c)) = "return"
    /\ skipped' = skipped \cup {Top(t).r}
    /\ threads' = [threads EXCEPT ![t] = Front(@)]
    /\ UNCHANGED <<probe, excluded, visitorQueries, res, stackOf, warning, cache, enabledNames,
                   fullName, apiCalls, queue, sink, errors, iterLog,
                   visitRaised, finished, escaped, failures>>

\* accept reaches line 358
AtVisit(t) ==
    /\ AtCheck(t)
    /\ \E c \in {cur_resource_repr(Top(t).r)} :
          c.ok /\ AfterExclusionCheck(Matched(c)) = "visit"

\* The side-band getter the visitor calls on a resource of class cls.
VisitorGetter(cls) ==
    IF cls \in {"organization", "folder"} THEN {"iam_policy"}
    ELSE IF cls = "project" THEN {"billing_info"}
    ELSE {}

\* accept, lines 358-359: visitor.visit(self) returns; inside it the visitor
\* called no getter (name = "") or called get_<name>(client) twice, first to
\* store the value and again to report it; `outcome` is what the client
\* answers whenever it is reached, g and g2 are the results of the two calls.
Visited(t, name, outcome) ==
    \E g \in {Getter(Top(t).r, name, cache[Top(t).r], TRUE, outcome)} :
    \E g2 \in {Getter(Top(t).r, name, g.cacheR, TRUE, outcome)} :
        /\ name # "" => g.ok /\ g2.ok
        /\ ~outcome.ok => g.calls > 0
        /\ cache' = IF name # "" THEN [cache EXCEPT ![Top(t).r] = g2.cacheR]
                    ELSE cache
        /\ apiCalls' = IF name # ""
                       THEN [apiCalls EXCEPT ![Top(t).r][name] = @ + g.calls + g2.calls]
                       ELSE apiCalls
        /\ sink' = [sink EXCEPT ![Top(t).r] = @ + 1]
        /\ \E u \in {NextIterator(threads[t],
                     IF name # ""
                     THEN [Effects EXCEPT !.warning[Top(t).r] = @ \o g.warns \o g2.warns]
                     ELSE Effects)} : Apply(t, u)

\* What the visitor asks and what the client answers during one visit.
VisitChoices(cls) ==
    IF ~visitorQueries \/ VisitorGetter(cls) = {}
    THEN {[name |-> "", outcome |-> Ok(None), fails |-> 0]}
    ELSE {[name |-> n, outcome |-> Ok(FetchedValue(n)), fails |-> 0] :
             n \in VisitorGetter(cls)}
         \cup {[name |-> n, outcome |-> Err(e), fails |-> 1] :
                  n \in VisitorGetter(cls), e \in FetchErrors}

AcceptVisit(t) ==
    /\ AtVisit(t)
    /\ \E v \in VisitChoices(res[Top(t).r].cls) :
          /\ failures + v.fails <= MaxFailures
          /\ failures' = failures + v.fails
          /\ Visited(t, v.name, v.outcome)
    /\ UNCHANGED <<probe, excluded, visitorQueries, res, stackOf, enabledNames, queue,
                   visitRaised, skipped>>

RaiseFromVisit_goOn(frames, e, S) == NextIterator(frames, S)

\* visitor.visit(self) raised at line 359: accept has no handler around the
\* call, so the exception leaves accept.
RaiseFromVisit(frames, e, S) == Unwind(frames, e, S)

\* accept, line 359: visitor.visit(self) raises
AcceptVisitRaises(t) ==
    /\ AtVisit(t)
    /\ failures < MaxFailures
    /\ failures' = failures + 1
    /\ sink' = [sink EXCEPT ![Top(t).r] = @ + 1]
    /\ visitRaised' = visitRaised \cup {Top(t).r}
    /\ \E u \in {RaiseFromVisit(threads[t], VisitError, Effects)} : Apply(t, u)
    /\ UNCHANGED <<probe, excluded, visitorQueries, res, stackOf, cache, enabledNames, apiCalls,
                   queue, skipped>>

-----------------------------------------------------------------------------
(* Driving the child iterators (accept, lines 361-385) *)

AtIter_never(t) == FALSE

\* accept is in its loop over self._contains, lines 361-364
AtIter(t) == threads[t] # <<>> /\ Top(t).pc = "iter"

CurIter_lastFirst(t) ==
    ContainsOf(res[Top(t).r].cls)[Len(ContainsOf(res[Top(t).r].cls)) + 1 - Top(t).it]

\* yielder_cls of the loop over self._contains, line 361
CurIter(t) == ContainsOf(res[Top(t).r].cls)[Top(t).it]

\* The children iterator `it` of parent p would yield, in order.
Items(p, it) ==
    IF it = "CompositeRootIterator"
    THEN [i \in 1..Len(res[p].data["composite_children"]) |->
            RootIdRes(res[p].data["composite_children"][i])]
    ELSE ApiItems(p, it)

IterArgs_always(p, it, pred) ==
    IF ~pred.ok THEN pred ELSE [pred EXCEPT !.val = TRUE]

\* iter() of a factory iterator after its parent predicate gave pred: the
\* arguments are read from the parent. val tells whether the client is
\* called at all.
IterArgs(p, it, pred) ==
    IF ~pred.ok \/ ~pred.val THEN pred
    ELSE IF IterArgKey(it) # "" /\ IterArgKey(it) \notin DOMAIN res[p].data
    THEN [ok |-> FALSE, exc |-> KeyErrorOf(IterArgKey(it), p), cacheR |-> pred.cacheR]
    ELSE pred

\* ResourceManagerProjectIterator.iter up to the client call, k being the
\* result of self.resource.key()
ProjectIterArgs(k, CR) ==
    IF k.ok THEN [ok |-> TRUE, val |-> TRUE, cacheR |-> CR]
    ELSE [ok |-> FALSE, exc |-> k.exc, cacheR |-> CR]

\* resource_validation_check() of a factory iterator, lines 1945-1952:
\* the method of the parent named by the class, or always_true
ValidationCheck(p, it, CR) ==
    CASE IterValidation(it) = "compute_api_enabled" -> compute_api_enabled(p, CR)
      [] IterValidation(it) = "container_api_enabled" -> container_api_enabled(p, CR)
      [] IterValidation(it) = "enumerable" ->
            CHOOSE u \in {IF en.ok THEN [ok |-> TRUE, val |-> en.val, cacheR |-> CR]
                          ELSE [ok |-> FALSE, exc |-> en.exc, cacheR |-> CR] :
                             en \in {enumerable(p)}} : TRUE
      [] OTHER -> [ok |-> TRUE, val |-> TRUE, cacheR |-> CR]

\* iter() up to the client call
IterStart(p, it, CR) ==
    IF it = "ResourceManagerProjectIterator"
    THEN CHOOSE u \in {ProjectIterArgs(k, CR) : k \in {key(p)}} : TRUE
    ELSE IF IterValidation(it) # ""
    THEN CHOOSE u \in {IterArgs(p, it, pred) :
                          pred \in {ValidationCheck(p, it, CR)}} : TRUE
    ELSE IterArgs(p, it, [ok |-> TRUE, val |-> TRUE, cacheR |-> CR])

Started(t) == IterStart(Top(t).r, CurIter(t), cache[Top(t).r])

\* iter() raises before it reaches the client
IterStartFails(t) ==
    /\ AtIter(t)
    /\ Top(t).pos = 0
    /\ \E st \in {Started(t)} :
          /\ ~st.ok
          /\ cache' = [cache EXCEPT ![Top(t).r] = st.cacheR]
          /\ \E u \in {HandleLoopError(threads[t], st.exc, "iterator", Effects)} :
                Apply(t, u)
    /\ UNCHANGED <<probe, excluded, visitorQueries, res, stackOf, enabledNames, apiCalls, queue, sink,
                   visitRaised, skipped, failures>>

\* iter() is exhausted, or its predicate is false
IterEnd(t) ==
    /\ AtIter(t)
    /\ \E st \in {Started(t)} :
          /\ st.ok
          /\ ~st.val \/ Top(t).pos = Len(Items(Top(t).r, CurIter(t)))
          /\ cache' = [cache EXCEPT ![Top(t).r] = st.cacheR]
    /\ \E u \in {NextIterator(threads[t],
                 [Effects EXCEPT !.iterLog[Top(t).r] =
                     Append(@, LogEntry(Top(t), EndOut, warning))])} : Apply(t, u)
    /\ UNCHANGED <<probe, excluded, visitorQueries, res, stackOf, enabledNames, apiCalls, queue,
                   sink, visitRaised, skipped, failures>>

\* from_root_id finds a fetch for the id CompositeRootIterator turns into a
\* resource next (any other iterator builds its items from a listing).
NextIdSupported(t) ==
    (CurIter(t) = "CompositeRootIterator"
        /\ Top(t).pos < Len(Items(Top(t).r, CurIter(t))))
    => \E i \in 1..Len(root_map) :
          StartsWith(RootIdOf(Items(Top(t).r, CurIter(t))[Top(t).pos + 1]),
                     root_map[i][1])

\* The errors that can come out of the client call of iterator `it`: the
\* fetch of CompositeRootIterator turns API errors into placeholders.
RaisableBy(it) ==
    IF it = "CompositeRootIterator"
    THEN {e \in IterErrors :
            e.cls \notin {"ApiExecutionError", "ResourceNotSupported"}}
    ELSE IterErrors

AfterIterError_raises(frames, e, S) == HandleLoopError(frames, e, "iterator", S)

\* The state after iterator error e: ResourceNotSupported is caught inside
\* iter(), which then just ends; anything else reaches accept's handler.
AfterIterError(frames, e, S) ==
    IF e.cls = "ResourceNotSupported"
    THEN NextIterator(frames,
             [S EXCEPT !.iterLog[Last(frames).r] =
                 Append(@, LogEntry(Last(frames), UnsupportedOut, S.warning))])
    ELSE HandleLoopError(frames, e, "iterator", S)

\* CompositeRootIterator.iter, line 1897: from_root_id raises for an id
\* with an unsupported prefix, without asking the client; the exception
\* leaves iter().
IterUnsupportedRoot(t) ==
    /\ AtIter(t)
    /\ ~NextIdSupported(t)
    /\ \E f \in {from_root_id(RootIdOf(Items(Top(t).r, CurIter(t))[Top(t).pos + 1]),
                               FALSE, Ok(None))} :
          \E u \in {AfterIterError(threads[t], f.exc, Effects)} : Apply(t, u)
    /\ UNCHANGED <<probe, excluded, visitorQueries, res, stackOf, cache,
                   enabledNames, apiCalls, queue, sink, visitRaised, skipped,
                   failures>>

\* The client call of the iterator raises, possibly after some items.
IterRaise(t) ==
    /\ AtIter(t)
    /\ \E st \in {Started(t)} :
          /\ st.ok /\ st.val
          /\ cache' = [cache EXCEPT ![Top(t).r] = st.cacheR]
    /\ CurIter(t) = "CompositeRootIterator"
          => Top(t).pos < Len(Items(Top(t).r, CurIter(t)))
    /\ NextIdSupported(t)
    /\ failures < MaxFailures
    /\ failures' = failures + 1
    /\ \E e \in RaisableBy(CurIter(t)) :
          \E u \in {AfterIterError(threads[t], e, Effects)} : Apply(t, u)
    /\ UNCHANGED <<probe, excluded, visitorQueries, res, stackOf, enabledNames, apiCalls, queue, sink,
                   visitRaised, skipped>>

Created_asRoot(it, c, outcome) ==
    IF it = "CompositeRootIterator"
    THEN from_root_id(RootIdOf(c), TRUE, outcome).val
    ELSE [cls |-> IterChild(it), data |-> ApiData(c), root |-> FALSE,
          warns |-> <<>>]

\* The Resource object an iterator builds for its next item c.
Created(it, c, outcome) ==
    IF it = "CompositeRootIterator"
    THEN from_root_id(RootIdOf(c), FALSE, outcome).val
    ELSE [cls |-> IterChild(it), data |-> ApiData(c), root |-> FALSE,
          warns |-> <<>>]

\* The iterator yields its next child c, built as o, and accept hands it on
\* with the stack stk.
Yield(t, c, o, stk) ==
    /\ res' = (c :> [cls |-> o.cls, data |-> o.data, root |-> o.root]) @@ res
    /\ warning' = [warning EXCEPT ![c] = @ \o o.warns]
    /\ queue' = IF RunDispatched(o.cls)
                THEN Append(queue, [r |-> c, stk |-> stk]) ELSE queue
    /\ threads' = [threads EXCEPT ![t] =
                      IF RunInline(o.cls)
                      THEN Append(ReplaceTop(@, [Top(t) EXCEPT !.pos = @ + 1]),
                                  Frame(c, "try", stk))
                      ELSE ReplaceTop(@, [Top(t) EXCEPT !.pos = @ + 1])]
    /\ stackOf' = IF RunInline(o.cls)
                  THEN [stackOf EXCEPT ![c] = [bound |-> TRUE, s |-> stk]]
                  ELSE stackOf

\* What the client answers when the item c of iterator `it` is built: only
\* CompositeRootIterator calls the client (a fetch) per item.
YieldChoices(it, c) ==
    {[outcome |-> Ok(ApiData(c)), fails |-> 0]}
    \cup IF it = "CompositeRootIterator"
         THEN {[outcome |-> Err(e), fails |-> 1] : e \in FetchErrors}
         ELSE {}

IterYield(t) ==
    /\ AtIter(t)
    /\ NextIdSupported(t)
    /\ \E st \in {Started(t)} :
          /\ st.ok /\ st.val
          /\ cache' = [cache EXCEPT ![Top(t).r] = st.cacheR]
    /\ Top(t).pos < Len(Items(Top(t).r, CurIter(t)))
    /\ \E c \in {Items(Top(t).r, CurIter(t))[Top(t).pos + 1]} :
       \E y \in YieldChoices(CurIter(t), c) :
          /\ failures + y.fails <= MaxFailures
          /\ failures' = failures + y.fails
          /\ \E o \in {Created(CurIter(t), c, y.outcome)} :
                Yield(t, c, o, new_stack(Top(t).stk, Top(t).r))
    /\ UNCHANGED <<probe, excluded, visitorQueries, enabledNames, fullName, apiCalls, sink, errors,
                   iterLog, visitRaised, finished, skipped, escaped>>

\* A pool worker starts the next dispatched callback: try_accept(visitor,
\* new_stack) of the child, which binds the child's stack on entry.
WorkerTake(t) ==
    /\ queue # <<>>
    /\ t = Head(queue).r
    /\ Cardinality({u \in Resources : threads[u] # <<>>}) < Cardinality(Workers)
    /\ threads' = [threads EXCEPT ![t] = <<Frame(Head(queue).r, "try", Head(queue).stk)>>]
    /\ stackOf' = [stackOf EXCEPT ![Head(queue).r] =
                      [bound |-> TRUE, s |-> Head(queue).stk]]
    /\ queue' = Tail(queue)
    /\ UNCHANGED <<probe, excluded, visitorQueries, res, warning, cache, enabledNames, fullName,
                   apiCalls, sink, errors, iterLog, visitRaised, finished,
                   skipped, escaped, failures>>

Next ==
    \E t \in Threads :
        \/ AcceptKeyError(t)
        \/ AcceptExcluded(t)
        \/ AcceptVisit(t)
        \/ AcceptVisitRaises(t)
        \/ IterStartFails(t)
        \/ IterEnd(t)
        \/ IterRaise(t)
        \/ IterUnsupportedRoot(t)
        \/ IterYield(t)
        \/ WorkerTake(t)

Spec == Init /\ [][Next]_vars

\* The crawl is over: the root's accept returned and the pool is drained.
CrawlDone == queue = <<>> /\ \A t \in Threads : threads[t] = <<>>

\* The crawl when every iterator and client call returns and the pool runs
\* every callback it was handed: a step that can be taken is eventually
\* taken.
FairSpec == Spec /\ WF_vars(Next)

-----------------------------------------------------------------------------
(* The side-band getters called directly, as a visitor does, on resources  *)
(* that an earlier crawl step built: an organization, an ACTIVE and a      *)
(* DELETE_REQUESTED project under it, and a dataset of the ACTIVE project. *)

MaxCalls == 3

ProbeInstances == {"o1", "pA", "pB", "d1"}

ProbeClass(r) ==
    CASE r = "o1"           -> "organization"
      [] r \in {"pA", "pB"} -> "project"
      [] OTHER              -> "dataset"

ProbeStack(r) ==
    CASE r = "o1"           -> <<>>
      [] r \in {"pA", "pB"} -> <<"o1">>
      [] OTHER              -> <<"o1", "pA">>

\* The getters a resource class overrides.
GetterNames(cls) ==
    CASE cls = "organization" -> {"iam_policy"}
      [] cls = "project"      -> {"iam_policy", "billing_info", "enabled_apis"}
      [] cls = "dataset"      -> {"iam_policy", "dataset_policy"}
      [] cls = "dataproc_cluster" -> {"iam_policy"}
      [] OTHER                -> {}

\* What the client answers to a side-band fetch.
ClientAnswers(name) ==
    { Ok(FetchedValue(name)),
      Err(ApiExecutionError(<<"Not", "found">>)),
      Err(ResourceNotSupported(<<"no", "such", "method">>)),
      Err(OtherError(<<"connection", "reset">>)) }
    \cup IF name = "enabled_apis" THEN {Ok(List(<<>>))} ELSE {}

GetterInit ==
    /\ excluded = {}
    /\ visitorQueries = TRUE
    /\ res = [r \in ProbeInstances |->
                [cls |-> ProbeClass(r), data |-> ApiData(r), root |-> r = "o1"]]
    /\ stackOf = [r \in Resources |->
                    IF r \in ProbeInstances
                    THEN [bound |-> TRUE, s |-> ProbeStack(r)]
                    ELSE [bound |-> FALSE, s |-> <<>>]]
    /\ warning = [r \in Resources |-> <<>>]
    /\ cache = [r \in Resources |-> EmptyFn]
    /\ enabledNames = [r \in Resources |-> [set |-> FALSE, names |-> {}]]
    /\ fullName = [r \in Resources |-> ""]
    /\ apiCalls = [r \in Resources |-> [n \in SideBandNames |-> 0]]
    /\ threads = [t \in Threads |-> <<>>]
    /\ queue = <<>>
    /\ sink = [r \in Resources |-> 0]
    /\ errors = [r \in Resources |-> <<>>]
    /\ iterLog = [r \in Resources |-> <<>>]
    /\ visitRaised = {}
    /\ finished = {}
    /\ skipped = {}
    /\ escaped = {}
    /\ failures = 0
    /\ probe = <<>>

\* What one getter call did: what it returned (ok) or that it raised, the
\* client calls it issued, the class of the error the client raised, the
\* number of warnings it added and the cached attribute after it.
ProbeEntry(r, name, g, outcome) ==
    [r |-> r, name |-> name, ok |-> g.ok,
     ret |-> IF g.ok THEN g.val ELSE None,
     calls |-> g.calls,
     raised |-> IF g.calls > 0 /\ ~outcome.ok THEN outcome.exc.cls ELSE "",
     warns |-> Len(g.warns),
     set |-> name \in DOMAIN g.cacheR,
     cached |-> IF name \in DOMAIN g.cacheR THEN g.cacheR[name] ELSE None]

\* self._enabled_service_names after get_enabled_apis: the body assigns it,
\* a cache hit leaves it alone.
EnabledNamesAfter(r, name, g) ==
    IF name = "enabled_apis" /\ g.ok /\ name \notin DOMAIN cache[r]
    THEN [enabledNames EXCEPT ![r] = [set |-> TRUE, names |-> ServiceNames(g.val)]]
    ELSE enabledNames

\* resource r's get_<name>(client) is called; the client answers `outcome`
\* if the call reaches it.
CallGetter(r, name, outcome) ==
    /\ Len(probe) < MaxCalls
    /\ \E g \in {Getter(r, name, cache[r], TRUE, outcome)} :
          /\ ~outcome.ok => g.calls > 0
          /\ cache' = [cache EXCEPT ![r] = g.cacheR]
          /\ warning' = [warning EXCEPT ![r] = @ \o g.warns]
          /\ apiCalls' = [apiCalls EXCEPT ![r][name] = @ + g.calls]
          /\ enabledNames' = EnabledNamesAfter(r, name, g)
          /\ probe' = Append(probe, ProbeEntry(r, name, g, outcome))
    /\ UNCHANGED <<excluded, visitorQueries, res, stackOf, fullName, threads,
                   queue, sink, errors, iterLog, visitRaised, finished,
                   skipped, escaped, failures>>

GetterNext ==
    \E r \in ProbeInstances : \E name \in GetterNames(res[r].cls) :
        \E outcome \in ClientAnswers(name) : CallGetter(r, name, outcome)

GetterSpec == GetterInit /\ [][GetterNext]_vars

-----------------------------------------------------------------------------
(* from_root_id called directly on configured root ids, as the crawler and *)
(* CompositeRootIterator do.                                               *)

MaxRoots == 2

\* Root ids a configuration may hold
RootIds ==
    { <<"organizations", "111">>, <<"projects", "bad">>, <<"folders", "F">>,
      <<"organizations">>, <<"organizationsX", "1">>, <<"projects-old", "5">>,
      <<"project", "1">>, <<"billingAccounts", "1">>, <<"Folders", "F">>, <<>> }

\* What the client answers to the fetch of a root
RootAnswers ==
    { Ok([name |-> <<"fetched">>]),
      Err(ApiExecutionError(<<"Not", "found">>)),
      Err(ResourceNotSupported(<<"no", "such", "method">>)),
      Err(OtherError(<<"connection", "reset">>)) }

\* No resource object
NoObject == [cls |-> "", data |-> EmptyFn, root |-> FALSE, warns |-> <<>>]

RootInit ==
    /\ excluded = {}
    /\ visitorQueries = FALSE
    /\ res = EmptyFn
    /\ stackOf = [r \in Resources |-> [bound |-> FALSE, s |-> <<>>]]
    /\ warning = [r \in Resources |-> <<>>]
    /\ cache = [r \in Resources |-> EmptyFn]
    /\ enabledNames = [r \in Resources |-> [set |-> FALSE, names |-> {}]]
    /\ fullName = [r \in Resources |-> ""]
    /\ apiCalls = [r \in Resources |-> [n \in SideBandNames |-> 0]]
    /\ threads = [t \in Threads |-> <<>>]
    /\ queue = <<>>
    /\ sink = [r \in Resources |-> 0]
    /\ errors = [r \in Resources |-> <<>>]
    /\ iterLog = [r \in Resources |-> <<>>]
    /\ visitRaised = {}
    /\ finished = {}
    /\ skipped = {}
    /\ escaped = {}
    /\ failures = 0
    /\ probe = <<>>

\* What one from_root_id call did: the resource it returned or the
\* exception it raised, the client methods it called and the class of the
\* error the client raised.
RootEntry(root_id, root, f, outcome) ==
    [root_id |-> root_id, root |-> root, ok |-> f.ok,
     obj |-> IF f.ok THEN f.val ELSE NoObject,
     exc |-> IF f.ok THEN <<>> ELSE f.exc.msg,
     calls |-> f.calls,
     raised |-> IF f.calls # <<>> /\ ~outcome.ok THEN outcome.exc.cls ELSE ""]

\* from_root_id(client, root_id, root) returns a resource
FromRootIdReturns(root_id, root, outcome) ==
    /\ Len(probe) < MaxRoots
    /\ \E f \in {from_root_id(root_id, root, outcome)} :
          /\ f.ok
          /\ probe' = Append(probe, RootEntry(root_id, root, f, outcome))
    /\ UNCHANGED <<excluded, visitorQueries, res, stackOf, warning, cache,
                   enabledNames, fullName, apiCalls, threads, queue, sink,
                   errors, iterLog, visitRaised, finished, skipped, escaped,
                   failures>>

\* from_root_id(client, root_id, root) raises
FromRootIdRaises(root_id, root, outcome) ==
    /\ Len(probe) < MaxRoots
    /\ \E f \in {from_root_id(root_id, root, outcome)} :
          /\ ~f.ok
          /\ probe' = Append(probe, RootEntry(root_id, root, f, outcome))
    /\ UNCHANGED <<excluded, visitorQueries, res, stackOf, warning, cache,
                   enabledNames, fullName, apiCalls, threads, queue, sink,
                   errors, iterLog, visitRaised, finished, skipped, escaped,
                   failures>>

RootNext ==
    \E root_id \in RootIds : \E root \in BOOLEAN : \E outcome \in RootAnswers :
        \/ FromRootIdReturns(root_id, root, outcome)
        \/ FromRootIdRaises(root_id, root, outcome)

RootSpec == RootInit /\ [][RootNext]_vars

-----------------------------------------------------------------------------
(* get_full_resource_name called directly, by the caller's thread or a     *)
(* worker's, on the resources of a crawled branch (composite root,         *)
(* organization, curated role, folder, project), while the callers of the  *)
(* public methods change the data of the resources and accept is called    *)
(* again with another stack.                                               *)

MaxNameCalls == 2

NameInstances == {"cr", "o1", "r1", "fA", "pA"}

NameClass(r) ==
    CASE r = "cr" -> "composite_root"
      [] r = "o1" -> "organization"
      [] r = "r1" -> "iam_curated_role"
      [] r = "fA" -> "folder"
      [] OTHER    -> "project"

\* The stack accept bound each resource to
NameStack(r) ==
    CASE r = "o1" -> <<"cr">>
      [] r = "r1" -> <<"cr", "o1">>
      [] r = "fA" -> <<"cr", "o1">>
      [] r = "pA" -> <<"cr", "o1", "fA">>
      [] OTHER    -> <<>>

\* The values a caller stores with resource[key] = value
NewItems(r) ==
    CASE r = "o1" -> {[key |-> "name", value |-> <<"organizations", "2">>]}
      [] r = "fA" -> {[key |-> "name", value |-> <<"folders", "Z">>]}
      [] r = "pA" -> {[key |-> "projectId", value |-> <<"p99">>]}
      [] OTHER    -> {}

\* The stacks a later accept(visitor, stack) of the resource is given
NewStacks(r) ==
    CASE r = "pA" -> {<<"cr", "o1">>}
      [] r = "fA" -> {<<>>}
      [] OTHER    -> {}

NameInit ==
    /\ excluded = {}
    /\ visitorQueries = FALSE
    /\ res = [r \in NameInstances |->
                [cls |-> NameClass(r), data |-> ApiData(r), root |-> r = "cr"]]
    /\ stackOf = [r \in Resources |->
                    IF r \in NameInstances
                    THEN [bound |-> TRUE, s |-> NameStack(r)]
                    ELSE [bound |-> FALSE, s |-> <<>>]]
    /\ warning = [r \in Resources |-> <<>>]
    /\ cache = [r \in Resources |-> EmptyFn]
    /\ enabledNames = [r \in Resources |-> [set |-> FALSE, names |-> {}]]
    /\ fullName = [r \in Resources |-> ""]
    /\ apiCalls = [r \in Resources |-> [n \in SideBandNames |-> 0]]
    /\ threads = [t \in Threads |-> <<>>]
    /\ queue = <<>>
    /\ sink = [r \in Resources |-> 0]
    /\ errors = [r \in Resources |-> <<>>]
    /\ iterLog = [r \in Resources |-> <<>>]
    /\ visitRaised = {}
    /\ finished = {}
    /\ skipped = {}
    /\ escaped = {}
    /\ failures = 0
    /\ probe = <<>>

\* r.get_full_resource_name() called by thread th
CallFullName(th, r) ==
    /\ Len(probe) < MaxNameCalls
    /\ \E n \in {get_full_resource_name(r, fullName)} :
          /\ fullName' = n.fn
          /\ probe' = Append(probe,
                 [r |-> r, th |-> th, ok |-> n.ok,
                  val |-> IF n.ok THEN n.val ELSE "",
                  data |-> res[r].data, stack |-> stackOf[r].s])
    /\ UNCHANGED <<excluded, visitorQueries, res, stackOf, warning, cache,
                   enabledNames, apiCalls, threads, queue, sink, errors,
                   iterLog, visitRaised, finished, skipped, escaped, failures>>

\* Resource.__setitem__: r[field] = value
SetItem(r, field, value) ==
    /\ res[r].data[field] # value
    /\ res' = [res EXCEPT ![r].data[field] = value]
    /\ UNCHANGED <<excluded, visitorQueries, stackOf, warning, cache,
                   enabledNames, fullName, apiCalls, threads, queue, sink,
                   errors, iterLog, visitRaised, finished, skipped, escaped,
                   failures, probe>>

\* accept, line 343: self._stack = stack
BindStack(r, stack) ==
    /\ stackOf[r].s # stack
    /\ stackOf' = [stackOf EXCEPT ![r] = [bound |-> TRUE, s |-> stack]]
    /\ UNCHANGED <<excluded, visitorQueries, res, warning, cache,
                   enabledNames, fullName, apiCalls, threads, queue, sink,
                   errors, iterLog, visitRaised, finished, skipped, escaped,
                   failures, probe>>

NameNext ==
    \E r \in NameInstances :
        \/ \E th \in {MainThread, "w1"} : CallFullName(th, r)
        \/ \E i \in NewItems(r) : SetItem(r, i.key, i.value)
        \/ \E stack \in NewStacks(r) : BindStack(r, stack)

NameSpec == NameInit /\ [][NameNext]_vars

-----------------------------------------------------------------------------
(* The crawl with a bounded queue in the visitor's pool *)

\* Places in the queue of the pool.
QueueCap == 1

\* The class of the child the iterator of thread t yields next.
NextChildClass(t) ==
    Created(CurIter(t), Items(Top(t).r, CurIter(t))[Top(t).pos + 1],
            Ok(ApiData(Items(Top(t).r, CurIter(t))[Top(t).pos + 1]))).cls

\* The loop body of accept has a child in hand.
HasNextChild(t) ==
    /\ AtIter(t)
    /\ NextIdSupported(t)
    /\ Top(t).pos < Len(Items(Top(t).r, CurIter(t)))
    /\ \E st \in {Started(t)} : st.ok /\ st.val

\* The activation f once its iterator has handed over the next child: the
\* frame remembers which item of which iterator the loop body holds.
WithChildInHand(f) ==
    [x \in DOMAIN f \cup {"held"} |->
        IF x = "held" THEN <<f.it, f.pos + 1>> ELSE f[x]]

\* The loop body of thread t holds a child it has not handed on yet.
Holding(t) ==
    /\ AtIter(t)
    /\ "held" \in DOMAIN Top(t)
    /\ Top(t).held = <<Top(t).it, Top(t).pos + 1>>

\* visitor.dispatch(callback), line 372, cannot return now: the child in
\* hand is dispatched and the queue is full.
QueueFullFor(t) ==
    /\ Len(queue) >= QueueCap
    /\ HasNextChild(t)
    /\ RunDispatched(NextChildClass(t))

\* Thread t is inside visitor.dispatch(callback) and waits for a place in
\* the queue.
BlockedInDispatch(t) == Holding(t) /\ QueueFullFor(t)

\* The iterator yields a dispatched child while the queue is full: the loop
\* body calls visitor.dispatch, which does not return.
DispatchWaits(t) ==
    /\ QueueFullFor(t)
    /\ ~Holding(t)
    /\ threads' = [threads EXCEPT ![t] = ReplaceTop(@, WithChildInHand(Top(t)))]
    /\ UNCHANGED <<probe, excluded, visitorQueries, res, stackOf, warning,
                   cache, enabledNames, fullName, apiCalls, queue, sink,
                   errors, iterLog, visitRaised, finished, skipped, escaped,
                   failures>>

\* The loop body of accept: dispatch returns once the queue has a place.
BoundedYield(t) == ~QueueFullFor(t) /\ IterYield(t)

\* The iterator raises when it is asked for its next item, not while the
\* loop body holds the previous one.
BoundedRaise(t) == ~Holding(t) /\ IterRaise(t)

BoundedNext ==
    \E t \in Threads :
        \/ AcceptKeyError(t)
        \/ AcceptExcluded(t)
        \/ AcceptVisit(t)
        \/ AcceptVisitRaises(t)
        \/ IterStartFails(t)
        \/ IterEnd(t)
        \/ BoundedRaise(t)
        \/ IterUnsupportedRoot(t)
        \/ DispatchWaits(t)
        \/ BoundedYield(t)
        \/ WorkerTake(t)

\* The crawl over a pool with QueueCap places: every thread that can take a
\* step eventually takes one, and the pool runs every callback it can.
BoundedSpec == Init /\ [][BoundedNext]_vars /\ WF_vars(BoundedNext)

-----------------------------------------------------------------------------
(* ComputeInstanceGroupIterator.iter, lines 2298-2330, resumed item by item *)
(* on project pA with its billing info cached: what the generator hands to *)
(* the loop of accept is logged in probe.                                  *)

\* Instance groups listed for one project.
MaxGroups == 2

\* data of the instance groups gcp.iter_compute_instancegroups can list
GroupData ==
    { [name |-> <<"ig1">>, zone |-> <<"zones", "z1">>],
      [name |-> <<"ig2">>, region |-> <<"regions", "r1">>],
      [name |-> <<"ig3">>] }

\* What gcp.fetch_compute_ig_instances answers for one instance group.
EnrichAnswers ==
    { Ok(List(<<"instances/i1">>)),
      Err(ResourceNotSupported(<<"no", "such", "method">>)),
      Err(ApiExecutionError(<<"Quota", "exceeded">>)),
      Err(OtherError(<<"connection", "reset">>)) }

\* What gcp.iter_compute_instancegroups raises instead of a next item.
ListingErrors ==
    { ResourceNotSupported(<<"no", "such", "method">>),
      ApiExecutionError(<<"Quota", "exceeded">>) }

\* The billing info cached on the project, and the names get_enabled_apis
\* left on it.
GroupBillingChoices ==
    { [billing_info |-> Dict([billingEnabled |-> TRUE])],
      [billing_info |-> Dict([billingEnabled |-> FALSE])] }

GroupEnabledChoices ==
    { [set |-> FALSE, names |-> {}],
      [set |-> TRUE, names |-> {"compute.googleapis.com"}],
      [set |-> TRUE, names |-> {"bigquery.googleapis.com"}] }

GroupInit ==
    /\ excluded = {}
    /\ visitorQueries = FALSE
    /\ res = [r \in {"pA"} |->
                [cls |-> "project", data |-> ApiData(r), root |-> TRUE]]
    /\ stackOf = [r \in Resources |->
                    IF r = "pA" THEN [bound |-> TRUE, s |-> <<>>]
                    ELSE [bound |-> FALSE, s |-> <<>>]]
    /\ warning = [r \in Resources |-> <<>>]
    /\ \E b \in GroupBillingChoices :
          cache = [r \in Resources |-> IF r = "pA" THEN b ELSE EmptyFn]
    /\ \E n \in GroupEnabledChoices :
          enabledNames = [r \in Resources |->
                            IF r = "pA" THEN n ELSE [set |-> FALSE, names |-> {}]]
    /\ fullName = [r \in Resources |-> ""]
    /\ apiCalls = [r \in Resources |-> [n \in SideBandNames |-> 0]]
    /\ threads = [t \in Threads |-> <<>>]
    /\ queue = <<>>
    /\ sink = [r \in Resources |-> 0]
    /\ errors = [r \in Resources |-> <<>>]
    /\ iterLog = [r \in Resources |-> <<>>]
    /\ visitRaised = {}
    /\ finished = {}
    /\ skipped = {}
    /\ escaped = {}
    /\ failures = 0
    /\ probe = <<>>

\* One resumption of the generator: it yields the resource built from
\* `out`, raises `out`, or ends; src tells which call decided, listed and
\* enrich are what the client listed and answered.
GroupEvent(kind, src, listed, enrich, out) ==
    [kind |-> kind, src |-> src, listed |-> listed, enrich |-> enrich,
     out |-> out]

\* The generator has neither ended nor raised.
GroupAlive == IF probe = <<>> THEN TRUE ELSE Last(probe).kind = "yield"

Enriched_swallowsAll(data, o) ==
    IF o.ok THEN Ok([instance_urls |-> o.val] @@ data) ELSE Ok(data)

\* lines 2313-2324: the inner try around gcp.fetch_compute_ig_instances,
\* which answered o, for the listed data; the result is the data handed to
\* create_new, or the exception that leaves the try.
Enriched(data, o) ==
    IF o.ok THEN Ok([instance_urls |-> o.val] @@ data)
    ELSE IF o.exc.cls = "ResourceNotSupported" THEN Ok(data)
    ELSE Err(o.exc)

\* lines 2310-2330 after one item of the listing: the outer try catches
\* ResourceNotSupported only, so any other exception of the inner try
\* leaves iter().
AfterEnrichment(data, o, e) ==
    IF e.ok THEN GroupEvent("yield", "enrichment", data, o, e.val)
    ELSE IF e.exc.cls = "ResourceNotSupported"
    THEN GroupEvent("end", "enrichment", data, o, e.exc)
    ELSE GroupEvent("raise", "enrichment", data, o, e.exc)

\* lines 2310-2312, 2328-2330: the listing raises e
AfterListingError(e) ==
    IF e.cls = "ResourceNotSupported"
    THEN GroupEvent("end", "listing", EmptyFn, Ok(None), e)
    ELSE GroupEvent("raise", "listing", EmptyFn, Ok(None), e)

GroupLogs(ev, c) ==
    /\ probe' = Append(probe, ev)
    /\ cache' = [cache EXCEPT !["pA"] = c.cacheR]
    /\ UNCHANGED <<excluded, visitorQueries, res, stackOf, warning,
                   enabledNames, fullName, apiCalls, threads, queue, sink,
                   errors, iterLog, visitRaised, finished, skipped, escaped,
                   failures>>

\* line 2309: `if self.resource.compute_api_enabled():` is false or raises
GroupPredicateEnds ==
    /\ probe = <<>>
    /\ \E c \in {compute_api_enabled("pA", cache["pA"])} :
          /\ ~c.ok \/ ~c.val
          /\ GroupLogs(IF c.ok
                       THEN GroupEvent("end", "predicate", EmptyFn, Ok(None), EmptyFn)
                       ELSE GroupEvent("raise", "predicate", EmptyFn, Ok(None), c.exc),
                       c)

\* The listing gives the instance group `data`, the enrichment fetch
\* answers o.
GroupItem(data, o) ==
    /\ GroupAlive
    /\ Len(probe) < MaxGroups
    /\ \A i \in 1..Len(probe) : probe[i].listed # data
    /\ \E c \in {compute_api_enabled("pA", cache["pA"])} :
          /\ c.ok /\ c.val
          /\ \E e \in {Enriched(data, o)} :
                GroupLogs(AfterEnrichment(data, o, e), c)

\* The listing is exhausted.
GroupListingEnds ==
    /\ GroupAlive
    /\ \E c \in {compute_api_enabled("pA", cache["pA"])} :
          /\ c.ok /\ c.val
          /\ GroupLogs(GroupEvent("end", "listing", EmptyFn, Ok(None), EmptyFn), c)

\* The listing raises instead of giving a next item.
GroupListingRaises(e) ==
    /\ GroupAlive
    /\ \E c \in {compute_api_enabled("pA", cache["pA"])} :
          /\ c.ok /\ c.val
          /\ GroupLogs(AfterListingError(e), c)

GroupNext ==
    \/ GroupPredicateEnds
    \/ \E data \in GroupData : \E o \in EnrichAnswers : GroupItem(data, o)
    \/ GroupListingEnds
    \/ \E e \in ListingErrors : GroupListingRaises(e)

GroupSpec == GroupInit /\ [][GroupNext]_vars

-----------------------------------------------------------------------------
(* iter() of the factory iterators called directly and consumed to its end, *)
(* on an organization and on two projects (one ACTIVE, one not) whose       *)
(* billing info and enabled services are cached or not.                     *)

\* Number of iter() calls in one run.
MaxIterCalls == 2

IterInstances == {"o1", "pA", "pB"}

\* The iterator classes called on a resource of class cls
IterClasses(cls) ==
    IF cls = "project"
    THEN {"ComputeInstanceIterator", "KubernetesClusterIterator",
          "KmsKeyRingIterator"}
    ELSE {"IamOrganizationCuratedRoleIterator", "IamOrganizationRoleIterator"}

\* What the named API method answers when it is invoked: a listing of n
\* items, or an exception.
ListingAnswers ==
    { Ok(0), Ok(1),
      Err(ResourceNotSupported(<<"no", "such", "method">>)),
      Err(ApiExecutionError(<<"Quota", "exceeded">>)) }

\* The billing info cached on the projects
IterBillingChoices ==
    { EmptyFn,
      [billing_info |-> Dict([billingEnabled |-> TRUE])],
      [billing_info |-> Dict([billingEnabled |-> FALSE])] }

\* What get_enabled_apis left on the projects
IterEnabledChoices ==
    { [set |-> FALSE, names |-> {}],
      [set |-> TRUE, names |-> {"compute.googleapis.com"}],
      [set |-> TRUE, names |-> {"container.googleapis.com"}] }

IterInit ==
    /\ excluded = {}
    /\ visitorQueries = FALSE
    /\ res = [r \in IterInstances |->
                [cls |-> ProbeClass(r), data |-> ApiData(r), root |-> r = "o1"]]
    /\ stackOf = [r \in Resources |->
                    IF r \in IterInstances
                    THEN [bound |-> TRUE, s |-> ProbeStack(r)]
                    ELSE [bound |-> FALSE, s |-> <<>>]]
    /\ warning = [r \in Resources |-> <<>>]
    /\ \E b \in IterBillingChoices :
          cache = [r \in Resources |-> IF r \in {"pA", "pB"} THEN b ELSE EmptyFn]
    /\ \E n \in IterEnabledChoices :
          enabledNames = [r \in Resources |->
                            IF r \in {"pA", "pB"} THEN n
                            ELSE [set |-> FALSE, names |-> {}]]
    /\ fullName = [r \in Resources |-> ""]
    /\ apiCalls = [r \in Resources |-> [n \in SideBandNames |-> 0]]
    /\ threads = [t \in Threads |-> <<>>]
    /\ queue = <<>>
    /\ sink = [r \in Resources |-> 0]
    /\ errors = [r \in Resources |-> <<>>]
    /\ iterLog = [r \in Resources |-> <<>>]
    /\ visitRaised = {}
    /\ finished = {}
    /\ skipped = {}
    /\ escaped = {}
    /\ failures = 0
    /\ probe = <<>>

\* What the consumer of iter() sees once the client was asked (or not):
\* the number of resources yielded and how the generator finished.
Consumed(st, answer) ==
    IF ~st.ok THEN [invoked |-> FALSE, yielded |-> 0, raised |-> TRUE]
    ELSE IF ~st.val THEN [invoked |-> FALSE, yielded |-> 0, raised |-> FALSE]
    ELSE IF answer.ok
    THEN [invoked |-> TRUE, yielded |-> answer.val, raised |-> FALSE]
    ELSE [invoked |-> TRUE, yielded |-> 0,
          raised |-> answer.exc.cls # "ResourceNotSupported"]

\* list(it(r, client).iter()): check is what the parent predicate returned
\* before the call
CallIter(r, it, answer) ==
    /\ Len(probe) < MaxIterCalls
    /\ \E check \in {ValidationCheck(r, it, cache[r])} :
       \E st \in {IterStart(r, it, cache[r])} :
          /\ cache' = [cache EXCEPT ![r] = st.cacheR]
          /\ probe' = Append(probe,
                 [r |-> r, it |-> it, predicate |-> IterValidation(it),
                  check |-> IF check.ok THEN Ok(check.val) ELSE Err(check.exc),
                  out |-> Consumed(st, answer)])
    /\ UNCHANGED <<excluded, visitorQueries, res, stackOf, warning,
                   enabledNames, fullName, apiCalls, threads, queue, sink,
                   errors, iterLog, visitRaised, finished, skipped, escaped,
                   failures>>

IterNext ==
    \E r \in IterInstances : \E it \in IterClasses(res[r].cls) :
        \E answer \in ListingAnswers : CallIter(r, it, answer)

IterSpec == IterInit /\ [][IterNext]_vars

-----------------------------------------------------------------------------
(* The crawl when visitor.dispatch runs the callback before it returns     *)
(* (run_crawler(..., parallel=False) of update_cai_dumps.py): every child  *)
(* is accepted on the caller's thread, inside the loop body of its parent. *)

NextItem_fromEnd(t) ==
    Items(Top(t).r, CurIter(t))[Len(Items(Top(t).r, CurIter(t))) - Top(t).pos]

\* `resource` of `for resource in yielder.iter()`, line 364
NextItem(t) == Items(Top(t).r, CurIter(t))[Top(t).pos + 1]

\* The loop body of accept, lines 364-374, with a synchronous dispatch:
\* resource.try_accept(visitor, new_stack) runs now in either branch.
YieldSync(t, c, o, stk) ==
    /\ res' = (c :> [cls |-> o.cls, data |-> o.data, root |-> o.root]) @@ res
    /\ warning' = [warning EXCEPT ![c] = @ \o o.warns]
    /\ queue' = queue
    /\ threads' = [threads EXCEPT ![t] =
                      Append(ReplaceTop(@, [Top(t) EXCEPT !.pos = @ + 1]),
                             Frame(c, "try", stk))]
    /\ stackOf' = [stackOf EXCEPT ![c] = [bound |-> TRUE, s |-> stk]]

IterYieldSync(t) ==
    /\ AtIter(t)
    /\ NextIdSupported(t)
    /\ \E st \in {Started(t)} :
          /\ st.ok /\ st.val
          /\ cache' = [cache EXCEPT ![Top(t).r] = st.cacheR]
    /\ Top(t).pos < Len(Items(Top(t).r, CurIter(t)))
    /\ \E c \in {NextItem(t)} :
       \E y \in YieldChoices(CurIter(t), c) :
          /\ failures + y.fails <= MaxFailures
          /\ failures' = failures + y.fails
          /\ \E o \in {Created(CurIter(t), c, y.outcome)} :
                YieldSync(t, c, o, new_stack(Top(t).stk, Top(t).r))
    /\ UNCHANGED <<probe, excluded, visitorQueries, enabledNames, fullName,
                   apiCalls, sink, errors, iterLog, visitRaised, finished,
                   skipped, escaped>>

SyncNext ==
    \E t \in Threads :
        \/ AcceptKeyError(t)
        \/ AcceptExcluded(t)
        \/ AcceptVisit(t)
        \/ AcceptVisitRaises(t)
        \/ IterStartFails(t)
        \/ IterEnd(t)
        \/ IterRaise(t)
        \/ IterUnsupportedRoot(t)
        \/ IterYieldSync(t)

SyncSpec == Init /\ [][SyncNext]_vars

-----------------------------------------------------------------------------
(* get_iam_policy of Dataproc clusters called directly, as a visitor does, *)
(* on clusters an earlier crawl step built under the ACTIVE project: one   *)
(* without 'labels', one whose labels are null, one whose labels lack the  *)
(* region, one that carries it.                                            *)

MaxClusterCalls == 3

ClusterInstances == {"k1", "k2", "k3", "k4"}

\* The data of the clusters, as gcp.iter_dataproc_clusters listed them
ClusterData(r) ==
    [clusterUuid |-> <<"uuid-" \o r>>, projectId |-> <<"p42">>,
     clusterName |-> <<r>>]
    @@ CASE r = "k1" -> EmptyFn
         [] r = "k2" -> [labels |-> None]
         [] r = "k3" -> [labels |-> Dict([env |-> <<"prod">>])]
         [] OTHER    -> [labels |-> Dict(("goog-dataproc-location" :> <<"us-east1">>)
                                        @@ [env |-> <<"prod">>])]

\* What the client answers to fetch_dataproc_cluster_iam_policy.
ClusterAnswers ==
    ClientAnswers("iam_policy")
    \cup {Err([cls |-> "TypeError", msg |-> <<"bad", "argument">>])}

ClusterInit ==
    /\ excluded = {}
    /\ visitorQueries = TRUE
    /\ res = [r \in ClusterInstances \cup {"pA"} |->
                IF r = "pA"
                THEN [cls |-> "project", data |-> ApiData(r), root |-> FALSE]
                ELSE [cls |-> "dataproc_cluster", data |-> ClusterData(r),
                      root |-> FALSE]]
    /\ stackOf = [r \in Resources |->
                    IF r \in ClusterInstances
                    THEN [bound |-> TRUE, s |-> <<"o1", "fA", "pA">>]
                    ELSE IF r = "pA" THEN [bound |-> TRUE, s |-> <<"o1", "fA">>]
                    ELSE [bound |-> FALSE, s |-> <<>>]]
    /\ warning = [r \in Resources |-> <<>>]
    /\ cache = [r \in Resources |-> EmptyFn]
    /\ enabledNames = [r \in Resources |-> [set |-> FALSE, names |-> {}]]
    /\ fullName = [r \in Resources |-> ""]
    /\ apiCalls = [r \in Resources |-> [n \in SideBandNames |-> 0]]
    /\ threads = [t \in Threads |-> <<>>]
    /\ queue = <<>>
    /\ sink = [r \in Resources |-> 0]
    /\ errors = [r \in Resources |-> <<>>]
    /\ iterLog = [r \in Resources |-> <<>>]
    /\ visitRaised = {}
    /\ finished = {}
    /\ skipped = {}
    /\ escaped = {}
    /\ failures = 0
    /\ probe = <<>>

\* get_iam_policy(client) of cluster r is called; the client answers
\* `outcome` if the call reaches it.
CallClusterGetter(r, outcome) ==
    /\ Len(probe) < MaxClusterCalls
    /\ \E g \in {Getter(r, "iam_policy", cache[r], TRUE, outcome)} :
          /\ outcome # Ok(FetchedValue("iam_policy")) => g.calls > 0
          /\ cache' = [cache EXCEPT ![r] = g.cacheR]
          /\ warning' = [warning EXCEPT ![r] = @ \o g.warns]
          /\ apiCalls' = [apiCalls EXCEPT ![r]["iam_policy"] = @ + g.calls]
          /\ probe' = Append(probe, ProbeEntry(r, "iam_policy", g, outcome))
    /\ UNCHANGED <<excluded, visitorQueries, res, stackOf, fullName, threads,
                   queue, sink, errors, iterLog, visitRaised, finished,
                   skipped, escaped, failures, enabledNames>>

ClusterNext ==
    \E r \in ClusterInstances : \E outcome \in ClusterAnswers :
        CallClusterGetter(r, outcome)

ClusterSpec == ClusterInit /\ [][ClusterNext]_vars

-----------------------------------------------------------------------------
(* Properties *)

\* C1: whenever visitor.visit(c) is called for a resource c yielded by a
\* child iterator of p, visitor.visit(p) has already been called, for inline
\* and for dispatched children alike.
ParentVisitedFirst ==
    [][\A c \in Resources \ {RootRes} :
          sink'[c] > sink[c] => sink[WorldParent(c)] > 0]_vars

\* An inline child and the projects of two folders crawled by pool workers
\* have all been visited.
ParentVisitedFirstWitness ==
    sink["r1"] = 1 /\ sink["pA"] = 1 /\ sink["pB"] = 1 /\ visitRaised = {}

\* '<type>/<key>' of a resource, and 'project/<projectNumber>' of a project
ExclusionIds(r) ==
    { TypeOf(res[r].cls) \o "/" \o key(r).val }
    \cup (IF res[r].cls = "project" /\ GetItem(r, "projectNumber").ok
          THEN { "project/" \o JoinSlash(GetItem(r, "projectNumber").val) }
          ELSE {})

\* C2: a resource one of whose identifiers ('<type>/<key>', and for a project
\* also 'project/<projectNumber>') is in excluded_resources is never passed
\* to visitor.visit, and neither is any resource below it.
ExcludedNeverVisited ==
    \A r \in DOMAIN res :
        key(r).ok /\ ExclusionIds(r) \cap excluded # {} =>
            /\ sink[r] = 0
            /\ \A d \in Resources : r \in WorldAncestors(d) => sink[d] = 0

\* The crawl ended with a project excluded by its number and a folder
\* excluded by its key, next to a folder that was visited.
ExcludedNeverVisitedWitness ==
    /\ CrawlDone
    /\ "project/42" \in excluded /\ "pA" \in skipped
    /\ "folder/B" \in excluded /\ "fB" \in skipped
    /\ sink["fA"] = 1

\* Number of pending or running try_accept calls for resource r.
Activations(r) ==
    Cardinality({i \in 1..Len(queue) : queue[i].r = r})
    + Cardinality({x \in Threads \X (1..Cardinality(Resources)) :
                      x[2] <= Len(threads[x[1]]) /\ threads[x[1]][x[2]].r = r})

\* C3: visitor.visit is called at most once per Resource instance, and a
\* yielded resource is never handed on both inline and through dispatch.
VisitedAtMostOnce ==
    \A r \in Resources : sink[r] <= 1 /\ Activations(r) <= 1

\* The crawl ended with a dispatched folder, its dispatched project and an
\* inline role each visited.
VisitedAtMostOnceWitness ==
    /\ CrawlDone /\ visitRaised = {}
    /\ sink["fA"] = 1 /\ sink["pA"] = 1 /\ sink["r1"] = 1

\* A try_accept or accept call for r is on some thread's call stack.
Active(r) ==
    \E t \in Threads : \E i \in 1..Len(threads[t]) : threads[t][i].r = r

\* r was yielded by a child iterator and matches no excluded identifier.
NotExcluded(r) == ~(key(r).ok /\ ExclusionIds(r) \cap excluded # {})

\* C4: no failure is global: once the root's accept has returned and the pool
\* is drained, every resource yielded by a child iterator of a visited
\* resource and not matching the exclusion set has been passed to
\* visitor.visit.
NoGlobalFailure ==
    CrawlDone =>
        \A c \in DOMAIN res \ {RootRes} :
            sink[WorldParent(c)] > 0 /\ NotExcluded(c) => sink[c] > 0

\* An ApiExecutionError whose message contains 'Not found', 'Unknown project
\* id' or 'scheduled for deletion'.
BenignPhraseError(e) ==
    /\ e.cls = "ApiExecutionError"
    /\ \/ Contains(e.msg, <<"Not", "found">>)
       \/ Contains(e.msg, <<"Unknown", "project", "id">>)
       \/ Contains(e.msg, <<"scheduled", "for", "deletion">>)

\* Entry i of iterLog[r] records a raise of the iterator itself.
IteratorRaised(r, i) ==
    iterLog[r][i].out.kind = "raise" /\ iterLog[r][i].out.src = "iterator"

\* The iterators of r were driven in registration order, and all of them
\* once no accept of r is running any more.
LaterIteratorsDriven(r) ==
    /\ Len(iterLog[r]) <= Len(ContainsOf(res[r].cls))
    /\ \A j \in 1..Len(iterLog[r]) : iterLog[r][j].it = ContainsOf(res[r].cls)[j]
    /\ ~Active(r) => Len(iterLog[r]) = Len(ContainsOf(res[r].cls))

\* Of the items of iterator entry i of r exactly the first n were produced.
StoppedAt(r, i) ==
    LET items == Items(r, iterLog[r][i].it) IN
    \A k \in 1..Len(items) : (items[k] \in DOMAIN res) <=> (k <= iterLog[r][i].n)

\* C5: when a child iterator of r raises a benign-phrase ApiExecutionError,
\* no warning is added to r and no on_child_error call reports the error;
\* the iterator stops where it was and r's later iterators are still driven.
BenignErrorAbsorbed ==
    \A r \in DOMAIN res : \A i \in 1..Len(iterLog[r]) :
        IteratorRaised(r, i) /\ BenignPhraseError(iterLog[r][i].out.exc) =>
            /\ iterLog[r][i].w1 = iterLog[r][i].w0
            /\ \A q \in Resources : \A j \in 1..Len(errors[q]) :
                  errors[q][j].payload.kind = "exception"
                      => errors[q][j].payload.exc # iterLog[r][i].out.exc
            /\ StoppedAt(r, i)
            /\ LaterIteratorsDriven(r)

\* The organization's curated role iterator raised a benign error; its
\* folder iterator, the last of three, then yielded both folders, and the
\* organization ended with no warning and no report.
BenignErrorAbsorbedWitness ==
    /\ "o1" \in finished
    /\ Len(iterLog["o1"]) = 3
    /\ IteratorRaised("o1", 1) /\ BenignPhraseError(iterLog["o1"][1].out.exc)
    /\ iterLog["o1"][3].n = 2
    /\ warning["o1"] = <<>> /\ errors["o1"] = <<>>

\* C6: when a child iterator of r raises anything but a benign-phrase
\* ApiExecutionError, exactly one warning containing repr(r) is appended to r
\* and r's later iterators are still driven; the warnings added while r's
\* iterators are driven are as many as the iterators that raised such errors.
NonBenignWarnedOnce ==
    \A r \in DOMAIN res :
        /\ \A i \in 1..Len(iterLog[r]) :
              IteratorRaised(r, i) /\ ~BenignPhraseError(iterLog[r][i].out.exc) =>
                  /\ iterLog[r][i].w1 = iterLog[r][i].w0 + 1
                  /\ Repr(r).ok
                  /\ Contains(warning[r][iterLog[r][i].w1], Repr(r).val)
                  /\ LaterIteratorsDriven(r)
        /\ {i \in 1..Len(iterLog[r]) : iterLog[r][i].w1 > iterLog[r][i].w0}
              = {i \in 1..Len(iterLog[r]) :
                    IteratorRaised(r, i) /\ ~BenignPhraseError(iterLog[r][i].out.exc)}

\* The on_child_error calls of r that report exception e.
ExceptionReports(r, e) ==
    {j \in 1..Len(errors[r]) :
        errors[r][j].payload = [kind |-> "exception", exc |-> e]}

\* C7: for every exception raised inside the accept of a child c, try_accept
\* calls on_child_error(c.full_resource_name, exception) exactly once and
\* returns normally: nothing is raised into the parent's loop or out of the
\* thread, and no descendant of c below the failing point is visited.
TryAcceptReportsOnce ==
    /\ \A x \in escaped : x.r = RootRes
    /\ \A r \in DOMAIN res : \A i \in 1..Len(iterLog[r]) :
          iterLog[r][i].out.kind = "raise" => iterLog[r][i].out.src = "iterator"
    /\ \A c \in visitRaised \ {RootRes} :
          /\ Cardinality(ExceptionReports(c, VisitError)) = 1
          /\ \A j \in ExceptionReports(c, VisitError) :
                errors[c][j].name = fullName[c] /\ fullName[c] # ""
          /\ \A d \in Resources : c \in WorldAncestors(d) => sink[d] = 0

\* C8 as stated: after visitor.visit(r) raised, r's child iterators are still
\* instantiated and driven.
VisitFailureStillDescends ==
    \A r \in visitRaised :
        ~Active(r) => Len(iterLog[r]) = Len(ContainsOf(res[r].cls))

\* C8: when visitor.visit(r) raises, the exception leaves r's accept at once:
\* none of r's child iterators is instantiated or driven, no descendant of r
\* is yielded or visited, and accept's trailing warning report is not made.
VisitFailureLeavesAccept ==
    \A r \in visitRaised :
        /\ ~Active(r)
        /\ iterLog[r] = <<>>
        /\ r \notin finished
        /\ \A j \in 1..Len(errors[r]) : errors[r][j].payload.kind # "warnings"
        /\ \A d \in Resources :
              r \in WorldAncestors(d) => d \notin DOMAIN res /\ sink[d] = 0

\* The visit of folder A raised; the crawl ended, having visited the project
\* of folder B.
VisitFailureLeavesAcceptWitness ==
    CrawlDone /\ "fA" \in visitRaised /\ sink["pB"] = 1

\* The on_child_error calls of r that report its joined warnings.
WarningReports(r) ==
    {j \in 1..Len(errors[r]) : errors[r][j].payload.kind = "warnings"}

\* C9: an accept that got past the exclusion check and the visit reaches its
\* end, and there calls on_child_error(full_resource_name, joined warnings)
\* exactly once if the resource holds a warning and not at all otherwise;
\* the call comes after all the child iterators of the resource were driven.
WarningsReportedOnce ==
    \A r \in DOMAIN res :
        /\ sink[r] > 0 /\ r \notin visitRaised /\ ~Active(r) => r \in finished
        /\ r \notin finished => WarningReports(r) = {}
        /\ r \in finished =>
              /\ Len(iterLog[r]) = Len(ContainsOf(res[r].cls))
              /\ IF warning[r] # <<>>
                 THEN /\ Cardinality(WarningReports(r)) = 1
                      /\ \A j \in WarningReports(r) :
                            /\ errors[r][j].payload.text = JoinLines(warning[r])
                            /\ errors[r][j].name = fullName[r]
                            /\ fullName[r] # ""
                 ELSE WarningReports(r) = {}

\* The organization came degraded from a failed root fetch and ended with
\* its one warning reported; its role ended without warning and report.
WarningsReportedOnceWitness ==
    /\ "o1" \in finished /\ "r1" \in finished
    /\ Len(warning["o1"]) = 1 /\ Head(warning["o1"][1]) = "Unable"
    /\ Cardinality(WarningReports("o1")) = 1
    /\ warning["r1"] = <<>> /\ errors["r1"] = <<>>

-----------------------------------------------------------------------------
(* Side-band getters (GetterSpec) *)

\* Calls i < j of the same getter on the same instance
SameGetter(i, j) ==
    /\ i < j
    /\ probe[i].r = probe[j].r
    /\ probe[i].name = probe[j].name

\* C11: once a get_<name> call on an instance has returned v, every later
\* call of that getter on that instance returns v, whatever getters were
\* called in between.
MemoNeverReplaced ==
    \A i \in 1..Len(probe) : \A j \in 1..Len(probe) :
        SameGetter(i, j) /\ probe[i].ok => probe[j].ok /\ probe[j].ret = probe[i].ret

\* The client call of getter call i raised one of the two API error classes
ClientFailed(i) == probe[i].raised \in {"ApiExecutionError", "ResourceNotSupported"}

\* Between calls i and j on a dataset the sibling getter fetched its policy
SiblingFetchedBetween(i, j) ==
    \E k \in (i + 1)..(j - 1) :
        /\ res[probe[i].r].cls = "dataset"
        /\ probe[k].r = probe[i].r /\ probe[k].name # probe[i].name
        /\ probe[k].ok /\ probe[k].calls = 1 /\ probe[k].raised = ""

\* C12 as stated: a getter whose client call raises ApiExecutionError or
\* ResourceNotSupported does not raise, adds a warning, returns and caches
\* null, and a later call returns null without a client call.
ClientFailureReturnsNull ==
    \A i \in 1..Len(probe) :
        ClientFailed(i) =>
            /\ probe[i].ok /\ probe[i].warns = 1
            /\ probe[i].ret = None /\ probe[i].set /\ probe[i].cached = None
            /\ \A j \in 1..Len(probe) :
                  SameGetter(i, j) =>
                      probe[j].ok /\ probe[j].ret = None /\ probe[j].calls = 0

\* What a getter returns after its client call failed
FailureValue(name) == IF name = "enabled_apis" THEN List(<<>>) ELSE None

\* C12 (amended): a getter whose client call raises ApiExecutionError or
\* ResourceNotSupported does not raise, adds exactly one warning, returns
\* null (get_enabled_apis: an empty list) and caches what it returned; no
\* later call of that getter calls the client or raises, and it returns the
\* same value unless the instance is a dataset whose sibling getter fetched
\* its policy in between.
ClientFailureAbsorbed ==
    \A i \in 1..Len(probe) :
        ClientFailed(i) =>
            /\ probe[i].ok /\ probe[i].warns = 1
            /\ probe[i].ret = FailureValue(probe[i].name)
            /\ probe[i].set /\ probe[i].cached = probe[i].ret
            /\ \A j \in 1..Len(probe) :
                  SameGetter(i, j) =>
                      /\ probe[j].ok /\ probe[j].calls = 0 /\ probe[j].warns = 0
                      /\ ~SiblingFetchedBetween(i, j) => probe[j].ret = probe[i].ret

ClientFailureAbsorbedWitness ==
    \E i, j \in 1..Len(probe) :
        /\ ClientFailed(i) /\ SameGetter(i, j)
        /\ probe[i].name = "enabled_apis" /\ probe[j].ret = List(<<>>)

\* Call i is one dataset getter and the later call j is its sibling
SiblingGetters(i, j) ==
    /\ i < j
    /\ probe[i].r = probe[j].r /\ res[probe[i].r].cls = "dataset"
    /\ probe[i].name # probe[j].name

\* C13: on a dataset, once get_iam_policy returned a policy every following
\* get_dataset_policy issues no client call, and the same with the two
\* getters exchanged, whatever was called on the instance before.
DatasetPairedCache ==
    \A i \in 1..Len(probe) : \A j \in 1..Len(probe) :
        SiblingGetters(i, j) /\ probe[i].ok /\ probe[i].ret # None
            => probe[j].calls = 0

DatasetPairedCacheWitness ==
    \E i \in 1..Len(probe) : \E j \in 1..Len(probe) :
        /\ SiblingGetters(i, j)
        /\ probe[i].calls = 1 /\ probe[i].ret # None
        /\ \A k \in 1..(j - 1) : probe[k].name # probe[j].name
        /\ probe[j].ok /\ probe[j].ret # None /\ probe[j].calls = 0

-----------------------------------------------------------------------------
(* from_root_id (RootSpec) *)

\* The resource class a root id asks for, if its prefix is a registered one
RequestedClass(root_id) ==
    CASE StartsWith(root_id, "organizations") -> "organization"
      [] StartsWith(root_id, "projects")      -> "project"
      [] StartsWith(root_id, "folders")       -> "folder"
      [] OTHER                                -> ""

\* Sequence s begins with sequence pre
BeginsWith(s, pre) == Len(s) >= Len(pre) /\ SubSeq(s, 1, Len(pre)) = pre

\* C14: when the fetch of a root raises ApiExecutionError or
\* ResourceNotSupported, from_root_id does not raise: it returns a
\* placeholder of the requested type with data {'name': root_id}, exactly
\* one warning beginning 'Unable to fetch <Type> from API', the requested
\* root flag, and it called the client exactly once.
FetchFailureGivesPlaceholder ==
    \A i \in 1..Len(probe) :
        probe[i].raised \in {"ApiExecutionError", "ResourceNotSupported"} =>
            /\ probe[i].ok
            /\ probe[i].obj.cls = RequestedClass(probe[i].root_id)
            /\ probe[i].obj.data = [name |-> probe[i].root_id]
            /\ Len(probe[i].obj.warns) = 1
            /\ BeginsWith(probe[i].obj.warns[1],
                          <<"Unable", "to", "fetch",
                            ClassLabel(RequestedClass(probe[i].root_id)),
                            "from", "API">>)
            /\ probe[i].obj.root = probe[i].root
            /\ Len(probe[i].calls) = 1

FetchFailureGivesPlaceholderWitness ==
    \E i, j \in 1..Len(probe) :
        /\ probe[i].raised = "ResourceNotSupported" /\ ~probe[i].root
        /\ probe[i].obj.cls = "folder"
        /\ probe[j].raised = "ApiExecutionError" /\ probe[j].root
        /\ probe[j].obj.cls = "project"

\* C16: from_root_id hands an id that starts with 'organizations',
\* 'projects' or 'folders' to the fetch of exactly that type and calls no
\* other; an id with none of these prefixes raises 'Unsupported root id'
\* with no client call and no resource created.
DispatchOnPrefix ==
    \A i \in 1..Len(probe) :
        IF RequestedClass(probe[i].root_id) # ""
        THEN /\ probe[i].calls = <<"fetch_crm_" \o RequestedClass(probe[i].root_id)>>
             /\ probe[i].ok => probe[i].obj.cls = RequestedClass(probe[i].root_id)
             /\ ~probe[i].ok => ~BeginsWith(probe[i].exc, <<"Unsupported", "root">>)
        ELSE /\ ~probe[i].ok
             /\ BeginsWith(probe[i].exc, <<"Unsupported", "root", "id,">>)
             /\ probe[i].calls = <<>>
             /\ probe[i].obj = NoObject

DispatchOnPrefixWitness ==
    \E i, j \in 1..Len(probe) :
        /\ probe[i].root_id = <<"organizationsX", "1">> /\ probe[i].ok
        /\ probe[j].root_id = <<"project", "1">> /\ ~probe[j].ok

-----------------------------------------------------------------------------
(* Roots, order and dispatch of the crawl (Spec) *)

\* The crawl started from the placeholder project that from_root_id returned
\* for 'projects/bad' after fetch_crm_project failed
DegradedProjectRoot ==
    /\ "pR" \in DOMAIN res /\ res["pR"].root
    /\ res["pR"].data = [name |-> <<"projects", "bad">>]

\* C15: accept on the placeholder project root runs to completion without
\* raising: the exclusion check, the visit and the iterators finish and its
\* single warning is reported.
DegradedProjectRootCompletes ==
    DegradedProjectRoot =>
        /\ escaped = {}
        /\ CrawlDone => /\ "pR" \in finished
                        /\ sink["pR"] = 1
                        /\ Len(errors["pR"]) = 1

\* Under parent p, a is yielded before b: by an iterator declared earlier
\* in p's registry entry, or earlier by the same iterator.
YieldedBefore(p, a, b) ==
    \E i, j \in 1..Len(ContainsOf(res[p].cls)) :
        \E k \in 1..Len(Items(p, ContainsOf(res[p].cls)[i])) :
        \E l \in 1..Len(Items(p, ContainsOf(res[p].cls)[j])) :
            /\ Items(p, ContainsOf(res[p].cls)[i])[k] = a
            /\ Items(p, ContainsOf(res[p].cls)[j])[l] = b
            /\ i < j \/ (i = j /\ k < l)

\* a and b are children of one parent, neither is dispatched, a comes first
InlineSiblings(a, b) ==
    /\ a \in DOMAIN res /\ b \in DOMAIN res
    /\ WorldParent(a) # a /\ WorldParent(a) = WorldParent(b)
    /\ WorldParent(a) \in DOMAIN res
    /\ ~should_dispatch(res[a].cls) /\ ~should_dispatch(res[b].cls)
    /\ YieldedBefore(WorldParent(a), a, b)

\* a and the resources below a that are reached without a dispatch
InlineSubtree(a) ==
    {a} \cup {d \in DOMAIN res :
                 /\ a \in WorldAncestors(d)
                 /\ \A x \in (WorldAncestors(d) \cup {d}) \cap DOMAIN res :
                        a \in WorldAncestors(x) => ~should_dispatch(res[x].cls)}

\* C17: of two children of one parent that are not dispatched, the one
\* yielded first (iterator declaration order, then API order) is visited
\* first, together with its whole inline subtree: once the later one is
\* visited no visit of the earlier one or of its inline subtree follows.
InlineSiblingsInOrder ==
    [][\A a \in Resources : \A b \in Resources :
          InlineSiblings(a, b) /\ sink'[b] > 0 =>
              \A d \in InlineSubtree(a) : sink'[d] = sink[d]]_vars

InlineSiblingsInOrderWitness ==
    /\ InlineSiblings("oR", "oS") /\ InlineSiblings("r2", "r3")
    /\ InlineSiblings("r3", "r4")
    /\ InlineSubtree("oR") = {"oR", "r2", "r3", "r4"}
    /\ \A d \in {"oR", "r2", "r3", "r4", "oS"} : sink[d] = 1
    /\ failures = 0

\* The registry classes of the hierarchy together with gsuite_group
RegistryClasses ==
    {"composite_root", "organization", "folder", "project", "iam_curated_role",
     "iam_role", "compute_instance", "dataset", "gsuite_group"}

\* The types the claim names as dispatched
DispatchedTypes == {"folder", "project", "gsuite_group"}

\* Callbacks for c waiting in the pool
Submitted(c) == Cardinality({i \in 1..Len(queue) : queue[i].r = c})

\* C18: a yielded child of type folder, project or gsuite_group is handed
\* to visitor.dispatch exactly once and its try_accept never runs inline
\* (it only ever runs as a callback of its own); a child of any other type
\* runs inline on top of its parent's accept and is never handed to
\* dispatch; should_dispatch() is true for exactly those three types.
DispatchByType ==
    /\ \A cls \in RegistryClasses : should_dispatch(cls) <=> cls \in DispatchedTypes
    /\ \A c \in DOMAIN res \ {RootRes} :
          IF res[c].cls \in DispatchedTypes
          THEN /\ Submitted(c) + (IF stackOf[c].bound THEN 1 ELSE 0) = 1
               /\ \A t \in Threads : \A i \in 1..Len(threads[t]) :
                      threads[t][i].r = c => t = c /\ i = 1
          ELSE /\ Submitted(c) = 0
               /\ stackOf[c].bound
               /\ \A t \in Threads : \A i \in 1..Len(threads[t]) :
                      threads[t][i].r = c =>
                          i > 1 /\ threads[t][i - 1].r = WorldParent(c)

DispatchByTypeWitness ==
    /\ Submitted("fB") = 1 /\ threads["fA"] # <<>>
    /\ stackOf["r1"].bound /\ sink["r1"] = 1
    /\ \E i \in 1..Len(threads[MainThread]) : threads[MainThread][i].r = "o1"

\* C19: when iterators and client calls return and the pool runs what it
\* is handed, every crawl reaches its terminal state, the root's accept
\* over and every dispatched callback, nested ones included, completed, and
\* stays there.
CrawlTerminates == <>[]CrawlDone

CrawlTerminatesWitness ==
    /\ CrawlDone
    /\ {"cr", "o1", "fA", "fB", "pA", "p2"} \subseteq finished
    /\ sink["pA"] = 1 /\ sink["r1"] = 1

\* The '<type>/<key>' segment of resource x
Segment(x) == TypeOf(res[x].cls) \o "/" \o key(x).val

\* The segments of a chain of resources, topmost first, joined by '/'
RECURSIVE SegmentsJoined(_)
SegmentsJoined(chain) ==
    IF Len(chain) = 1 THEN Segment(chain[1])
    ELSE SegmentsJoined(Front(chain)) \o "/" \o Segment(Last(chain))

\* r below the resources the crawl went through to reach it, from the root
RECURSIVE CrawlChain(_)
CrawlChain(r) ==
    IF res[r].root THEN <<r>> ELSE Append(CrawlChain(WorldParent(r)), r)

\* r below its parent() chain, which ends at the root or at a resource
\* whose parent() is null
RECURSIVE ParentChain(_)
ParentChain(r) ==
    IF res[r].root \/ parent(r).val = NoneRes THEN <<r>>
    ELSE Append(ParentChain(parent(r).val), r)

\* The resources whose full name can be asked for: built, bound to their
\* ancestors, and every key on the way readable.
Nameable(r) ==
    /\ r \in DOMAIN res
    /\ res[r].root \/ stackOf[r].bound
    /\ \A x \in {r} \cup WorldAncestors(r) : x \in DOMAIN res => key(x).ok

\* C20 as stated: the full name of every resource is the '/'-joined
\* '<type>/<key>' segments from the root of the crawl down to the resource.
FullNameFromRoot ==
    \A r \in Resources :
        Nameable(r) =>
            \E n \in {get_full_resource_name(r, fullName)} :
                n.ok => n.val = SegmentsJoined(CrawlChain(r))

\* C20: the full name of every resource is the '/'-joined '<type>/<key>'
\* segments along its parent() chain, topmost first: from the root down to
\* the resource, or the resource's own segment alone when its parent() is
\* null, as for a curated role.
FullNameFromParents ==
    \A r \in Resources :
        Nameable(r) =>
            \E n \in {get_full_resource_name(r, fullName)} :
                /\ n.ok
                /\ n.val = SegmentsJoined(ParentChain(r))
                /\ fullName[r] \in {"", n.val}

FullNameFromParentsWitness ==
    /\ "pA" \in DOMAIN res
    /\ fullName["pA"] = "composite_root/root/organization/1/folder/A/project/p42"
    /\ ParentChain("pA") = <<"cr", "o1", "fA", "pA">>
    /\ "r1" \in DOMAIN res /\ stackOf["r1"].bound
    /\ get_full_resource_name("r1", fullName).val = "role/roles/viewer"
    /\ ParentChain("r1") = <<"r1">> /\ CrawlChain("r1") = <<"cr", "o1", "r1">>

\* Calls i and j of get_full_resource_name are on the same resource and
\* both returned.
SameNameReturned(i, j) ==
    /\ probe[i].r = probe[j].r
    /\ probe[i].ok /\ probe[j].ok

Acting(t) == threads'[t] # threads[t]

\* Thread t is descending into r: an accept of r is among its activations.
Descending(t, r) == \E i \in 1..Len(threads[t]) : threads[t][i].r = r

\* Thread t is descending into r or into a resource below r.
DescendingBelow(t, r) ==
    \E i \in 1..Len(threads[t]) :
        \/ threads[t][i].r = r
        \/ \E k \in 1..Len(threads[t][i].stk) : threads[t][i].stk[k] = r

\* The step changes the memoized entries, the warnings, the full name of r.
WritesCache(r) == cache'[r] # cache[r]
WritesWarning(r) == warning'[r] # warning[r]
WritesFullName(r) == fullName'[r] # fullName[r]

ReceivedUnsupported(r, i) ==
    \/ iterLog[r][i].out.kind = "unsupported"
    \/ /\ IteratorRaised(r, i)
       /\ iterLog[r][i].out.exc.cls = "ResourceNotSupported"

\* The first n items of iterator entry i of r, the children yielded before
\* it ended, were each visited or excluded.
YieldedStayVisited(r, i) ==
    \A k \in 1..iterLog[r][i].n :
        \E c \in {Items(r, iterLog[r][i].it)[k]} : sink[c] = 1 \/ c \in skipped

\* C23: a child iterator of r to which the client raises
\* ResourceNotSupported ends as an exhausted sequence: nothing is raised into
\* accept, r gets no warning and no on_child_error call reports the error,
\* the children yielded before are visited, no further child is produced and
\* r's later iterators are still driven.
UnsupportedEndsQuietly ==
    \A r \in DOMAIN res : \A i \in 1..Len(iterLog[r]) :
        ReceivedUnsupported(r, i) =>
            /\ iterLog[r][i].out.kind = "unsupported"
            /\ iterLog[r][i].w1 = iterLog[r][i].w0
            /\ \A q \in Resources : \A j \in 1..Len(errors[q]) :
                  errors[q][j].payload.kind = "exception"
                      => errors[q][j].payload.exc.cls # "ResourceNotSupported"
            /\ StoppedAt(r, i)
            /\ LaterIteratorsDriven(r)
            /\ CrawlDone => YieldedStayVisited(r, i)

\* The folder iterator of the organization yielded folder A and then got
\* ResourceNotSupported: folder A and its project were visited, folder B was
\* never built, and the organization ended with no warning and no report.
UnsupportedEndsQuietlyWitness ==
    /\ CrawlDone /\ "o1" \in finished
    /\ Len(iterLog["o1"]) = 3
    /\ iterLog["o1"][3].out.kind = "unsupported" /\ iterLog["o1"][3].n = 1
    /\ sink["fA"] = 1 /\ sink["pA"] = 1 /\ "fB" \notin DOMAIN res
    /\ warning["o1"] = <<>> /\ errors["o1"] = <<>>

\* The billing info of project r is unknown, null or empty.
BillingUnknown(r) ==
    \/ "billing_info" \notin DOMAIN cache[r]
    \/ ~Truthy(cache[r]["billing_info"])

\* info.get('billingEnabled', False) of the cached billing info of r
BillingFlag(r) ==
    /\ "billingEnabled" \in DOMAIN cache[r]["billing_info"].d
    /\ cache[r]["billing_info"].d["billingEnabled"]

\* C24 as stated: billing_enabled() of a project never raises; it returns
\* true while the billing info is unknown or null and the billingEnabled flag
\* of the cached billing info otherwise.
BillingEnabledReadsCache ==
    \A r \in DOMAIN res :
        res[r].cls = "project" =>
            \E b \in {billing_enabled(r, cache[r])} :
                /\ b.ok
                /\ b.val = (BillingUnknown(r) \/ BillingFlag(r))

\* The service names is_api_enabled is asked about
AskedServices == {"compute.googleapis.com", "bigquery.googleapis.com"}

\* The get_enabled_apis calls on r that returned
EnabledApisCalls(r) ==
    {i \in 1..Len(probe) :
        probe[i].r = r /\ probe[i].name = "enabled_apis" /\ probe[i].ok}

\* The names of the services get_enabled_apis returned for r
ReturnedServices(r) ==
    UNION {ServiceNames(probe[i].ret) : i \in EnabledApisCalls(r)}

\* C25: is_api_enabled(name) of a project returns true for every name while
\* get_enabled_apis has not returned on the instance or returned no service
\* (the project is not ACTIVE, the fetch failed, the listing was empty), and
\* once it has returned services, true exactly for their names.
ApiEnabledFailOpen ==
    \A r \in DOMAIN res : \A service_name \in AskedServices :
        res[r].cls = "project" =>
            is_api_enabled(r, service_name)
                = (ReturnedServices(r) = {} \/ service_name \in ReturnedServices(r))

\* get_enabled_apis listed one service for the ACTIVE project, whose
\* is_api_enabled then tells that service from another; it was called on
\* the DELETE_REQUESTED project too, which still reports every service as
\* enabled, as does a project after a failed fetch.
ApiEnabledFailOpenWitness ==
    /\ EnabledApisCalls("pA") # {} /\ EnabledApisCalls("pB") # {}
    /\ ReturnedServices("pA") = {"compute.googleapis.com"}
    /\ is_api_enabled("pA", "compute.googleapis.com")
    /\ ~is_api_enabled("pA", "bigquery.googleapis.com")
    /\ enabledNames["pB"] = [set |-> TRUE, names |-> {}]
    /\ is_api_enabled("pB", "bigquery.googleapis.com")

\* C26: parent() of a resource bound to a stack returns the resource itself
\* when it is the root, otherwise the last element of its stack, or null
\* when the stack is empty; parent() of a curated role returns null.
ParentIsTopOfStack ==
    \A r \in DOMAIN res :
        stackOf[r].bound =>
            \E p \in {parent(r)} :
                /\ p.ok
                /\ res[r].cls = "iam_curated_role" => p.val = NoneRes
                /\ res[r].cls # "iam_curated_role" /\ res[r].root => p.val = r
                /\ res[r].cls # "iam_curated_role" /\ ~res[r].root =>
                      /\ stackOf[r].s # <<>>
                            => p.val = stackOf[r].s[Len(stackOf[r].s)]
                      /\ stackOf[r].s = <<>> => p.val = NoneRes

\* The root is its own parent, the curated role bound to [root,
\* organization] has none, the folder bound to an empty stack has none, and
\* the project rebound to [root, organization] has the organization.
ParentIsTopOfStackWitness ==
    /\ parent("cr") = Ok("cr")
    /\ stackOf["r1"].s = <<"cr", "o1">> /\ parent("r1") = Ok(NoneRes)
    /\ stackOf["fA"].s = <<>> /\ parent("fA") = Ok(NoneRes)
    /\ stackOf["pA"].s = <<"cr", "o1">> /\ parent("pA") = Ok("o1")
    /\ parent("o1") = Ok("cr")

\* The composite roots built so far
CompositeRoots == {r \in DOMAIN res : res[r].cls = "composite_root"}

\* The k-th id of composite_children of r was yielded as a non-root resource
\* of the class its prefix asks for, after the ids before it, and is bound
\* to the stack [r] when it is accepted.
YieldedAsSubRoot(r, k) ==
    \E c \in {RootIdRes(res[r].data["composite_children"][k])} :
        /\ c \in DOMAIN res
        /\ ~res[c].root
        /\ res[c].cls = RequestedClass(res[r].data["composite_children"][k])
        /\ stackOf[c].bound => stackOf[c].s = <<r>>
        /\ CrawlDone => stackOf[c].bound
        /\ k > 1 => RootIdRes(res[r].data["composite_children"][k - 1]) \in DOMAIN res

\* The sub-root c is crawled like any other resource: once its accept got
\* past the visit and no accept of c is running, c has driven every iterator
\* of its class.
CrawledLikeAnyOther(c) ==
    sink[c] = 1 /\ c \notin visitRaised /\ ~Active(c)
        => c \in finished /\ Len(iterLog[c]) = Len(ContainsOf(res[c].cls))

\* C27 as stated: when the crawl of a composite root that was passed to
\* the visitor is over, every id of composite_children was yielded, in list
\* order, as a non-root resource built by from_root_id(root=False) and
\* accepted with stack [composite root], its subtree crawled like any other.
EverySubRootYielded ==
    \A r \in CompositeRoots :
        CrawlDone /\ sink[r] = 1 /\ r \notin visitRaised =>
            \A k \in 1..Len(res[r].data["composite_children"]) :
                /\ YieldedAsSubRoot(r, k)
                /\ CrawledLikeAnyOther(RootIdRes(res[r].data["composite_children"][k]))

\* C27: the crawl of a composite root yields the ids of composite_children
\* in list order, each as a non-root resource built by
\* from_root_id(root=False) and accepted with stack [composite root], its
\* subtree crawled like any other; it yields every id unless from_root_id
\* raises for one of them, and then none of the ids after that one.
SubRootsYieldedUntilRaise ==
    \A r \in CompositeRoots :
        /\ \A k \in 1..Len(res[r].data["composite_children"]) :
              RootIdRes(res[r].data["composite_children"][k]) \in DOMAIN res =>
                  /\ YieldedAsSubRoot(r, k)
                  /\ CrawledLikeAnyOther(RootIdRes(res[r].data["composite_children"][k]))
        /\ \A i \in 1..Len(iterLog[r]) :
              /\ StoppedAt(r, i)
              /\ iterLog[r][i].out.kind \in {"end", "raise"}
              /\ iterLog[r][i].out.kind = "end"
                    => iterLog[r][i].n = Len(res[r].data["composite_children"])
        /\ CrawlDone /\ sink[r] = 1 /\ r \notin visitRaised => Len(iterLog[r]) = 1

\* The crawl of the composite root over organizations/1 and projects/p2
\* ended: both were yielded, the organization inline and the project
\* through dispatch, both bound to [composite root]; the organization's
\* folders and their projects were visited.
SubRootsYieldedUntilRaiseWitness ==
    /\ CrawlDone /\ "cr" \in finished
    /\ iterLog["cr"][1].out.kind = "end" /\ iterLog["cr"][1].n = 2
    /\ stackOf["o1"] = [bound |-> TRUE, s |-> <<"cr">>]
    /\ stackOf["p2"] = [bound |-> TRUE, s |-> <<"cr">>]
    /\ ~res["o1"].root /\ ~res["p2"].root
    /\ {"o1", "p2", "fA", "fB"} \subseteq finished
    /\ sink["pA"] = 1 /\ sink["pB"] = 1

\* Every resource accepted as a child is bound to the stack of the resource
\* that yielded it followed by that resource, which makes its stack its
\* ancestor chain from the root to its immediate parent; the root is bound
\* to the empty stack.
BoundToAncestorChain ==
    \A c \in DOMAIN res :
        stackOf[c].bound =>
            /\ stackOf[c].s = Front(CrawlChain(c))
            /\ ~res[c].root =>
                  /\ stackOf[WorldParent(c)].bound
                  /\ stackOf[c].s = stackOf[WorldParent(c)].s \o <<WorldParent(c)>>

\* A step leaves every stack that is bound as it is.
BoundStacksKept ==
    \A r \in Resources : stackOf[r].bound => stackOf'[r] = stackOf[r]

\* C28: a resource accepted as a child of p is bound to the stack of p
\* followed by p, so that the stack of a resource is its ancestor chain from
\* the root to its immediate parent; a stack that accept has bound is never
\* modified afterwards, be it by the binding of a child's or a sibling's.
StackBinding == []BoundToAncestorChain /\ [][BoundStacksKept]_vars

\* Both projects are bound, each below its own folder, while the curated
\* role and the folders are bound to [composite root, organization].
StackBindingWitness ==
    /\ stackOf["pA"] = [bound |-> TRUE, s |-> <<"cr", "o1", "fA">>]
    /\ stackOf["pB"] = [bound |-> TRUE, s |-> <<"cr", "o1", "fB">>]
    /\ stackOf["fA"] = [bound |-> TRUE, s |-> <<"cr", "o1">>]
    /\ stackOf["fB"] = stackOf["fA"] /\ stackOf["r1"] = stackOf["fA"]
    /\ stackOf["o1"] = [bound |-> TRUE, s |-> <<"cr">>]
    /\ stackOf["cr"] = [bound |-> TRUE, s |-> <<>>]

\* The threads of the pool that run a callback
Busy == {t \in Resources : threads[t] # <<>>}

\* Every worker of the pool is blocked inside dispatch while callbacks wait
\* in the queue.
PoolDeadlock ==
    /\ queue # <<>>
    /\ Cardinality(Busy) = Cardinality(Workers)
    /\ \A t \in Busy : BlockedInDispatch(t)

Enrichments == {i \in 1..Len(probe) : probe[i].src = "enrichment"}

\* The item of resumption i was yielded without instance_urls.
YieldedUnenriched(i) ==
    /\ probe[i].kind = "yield"
    /\ probe[i].out = probe[i].listed
    /\ "instance_urls" \notin DOMAIN probe[i].out

\* C30 as stated: whatever fetch_compute_ig_instances raises, the item is
\* yielded without instance_urls (and the generator goes on to the next
\* instance group).
EnrichmentFailureSwallowed ==
    \A i \in Enrichments : ~probe[i].enrich.ok => YieldedUnenriched(i)

\* C30: when fetch_compute_ig_instances raises ResourceNotSupported the
\* item is yielded without instance_urls and the generator goes on; when it
\* raises anything else that exception leaves iter(): the item is not
\* yielded and neither is any later instance group of the listing. When it
\* returns, the item is yielded with the returned instance_urls.
OnlyUnsupportedEnrichmentSwallowed ==
    \A i \in Enrichments :
        /\ probe[i].enrich.ok =>
              /\ probe[i].kind = "yield"
              /\ probe[i].out = [instance_urls |-> probe[i].enrich.val]
                                    @@ probe[i].listed
        /\ (~probe[i].enrich.ok
              /\ probe[i].enrich.exc.cls = "ResourceNotSupported") =>
              YieldedUnenriched(i)
        /\ (~probe[i].enrich.ok
              /\ probe[i].enrich.exc.cls # "ResourceNotSupported") =>
              /\ probe[i].kind = "raise"
              /\ probe[i].out = probe[i].enrich.exc
              /\ i = Len(probe)
              /\ ~ENABLED GroupNext

\* The fetch of the first instance group raised ResourceNotSupported, the
\* group was yielded as listed; the fetch of the second raised an API error,
\* which left iter().
OnlyUnsupportedEnrichmentSwallowedWitness ==
    /\ Len(probe) = 2
    /\ probe[1].src = "enrichment" /\ probe[2].src = "enrichment"
    /\ probe[1].enrich = Err(ResourceNotSupported(<<"no", "such", "method">>))
    /\ YieldedUnenriched(1)
    /\ probe[2].enrich = Err(ApiExecutionError(<<"Quota", "exceeded">>))
    /\ probe[2].kind = "raise"

\* C31: when the parent predicate of a factory iterator (enumerable,
\* compute_api_enabled, container_api_enabled) returns false, iter() yields
\* nothing, raises nothing and does not invoke the API method; when the
\* class names no predicate, the API method is invoked.
FalsePredicateSkipsCall ==
    \A i \in 1..Len(probe) :
        /\ (probe[i].predicate # "" /\ probe[i].check = Ok(FALSE)) =>
              probe[i].out = [invoked |-> FALSE, yielded |-> 0, raised |-> FALSE]
        /\ probe[i].predicate = "" => probe[i].out.invoked

\* Each of the three predicates has returned false on a project (pB is not
\* ACTIVE, billing is off or the service is not enabled on pA), and an
\* iterator without predicate has asked the client.
FalsePredicateSkipsCallWitness ==
    /\ Len(probe) = 2
    /\ probe[1].check = Ok(FALSE) /\ ~probe[1].out.invoked
    /\ probe[1].predicate \in {"enumerable", "compute_api_enabled",
                               "container_api_enabled"}
    /\ probe[2].predicate = "" /\ probe[2].out.invoked
    /\ probe[2].out.yielded = 1

\* The names accept compares with the exclusion set match it for r.
MatchesExclusion(r) ==
    \E c \in {cur_resource_repr(r)} : c.ok /\ c.val \cap excluded # {}

\* accept(r) has made no call on the visitor, started no iterator and asked
\* the client nothing.
NothingDoneFor(r) ==
    /\ sink[r] = 0
    /\ errors[r] = <<>>
    /\ iterLog[r] = <<>>
    /\ cache[r] = EmptyFn
    /\ \A n \in SideBandNames : apiCalls[r][n] = 0
    /\ \A c \in DOMAIN res : c # r => WorldParent(c) # r
    /\ \A i \in 1..Len(queue) : Last(queue[i].stk) # r
    /\ \A t \in Threads : \A i \in 1..Len(threads[t]) :
          threads[t][i].r = r => threads[t][i].pc = "check"

\* The step is the return of accept on a resource that matches the
\* exclusion set.
ExcludedReturn == skipped' # skipped

\* C32: accept on a resource that matches the exclusion set only binds the
\* stack of the resource and returns: the resource is never handed to
\* visitor.visit, no error is reported for it, none of its iterators is
\* started, nothing is dispatched and the client is never asked, whether it
\* carries warnings or not; the returning step changes nothing else.
ExcludedAcceptHasNoEffect ==
    /\ [](\A r \in DOMAIN res : MatchesExclusion(r) => NothingDoneFor(r))
    /\ [](\A r \in skipped : MatchesExclusion(r) /\ stackOf[r].bound)
    /\ [][ExcludedReturn =>
            UNCHANGED <<res, stackOf, warning, cache, enabledNames, fullName,
                        apiCalls, queue, sink, errors, iterLog, visitRaised,
                        finished, escaped, failures>>]_vars

\* The placeholder of organization 1, whose fetch failed, is excluded: the
\* crawl is over, the placeholder was skipped with its warning unreported.
ExcludedAcceptHasNoEffectWitness ==
    /\ CrawlDone
    /\ "o1" \in skipped
    /\ warning["o1"] # <<>>
    /\ stackOf["o1"] = [bound |-> TRUE, s |-> <<"cr">>]
    /\ errors["o1"] = <<>>

\* The configured ids of composite root r, as resources
SubRoots(r) ==
    [k \in 1..Len(res[r].data["composite_children"]) |->
        RootIdRes(res[r].data["composite_children"][k])]

\* The id of c starts with none of 'organizations', 'projects', 'folders'.
UnsupportedPrefix(c) ==
    Head(RootIdOf(c)) \notin {"organizations", "projects", "folders"}

\* c is the placeholder of a fetch that failed at the API.
FetchFailed(c) ==
    /\ c \in DOMAIN res
    /\ warning[c] # <<>>
    /\ SubSeq(warning[c][1], 1, 3) = <<"Unable", "to", "fetch">>

\* C33 as stated: when the crawl of a visited composite root is over, every
\* id that follows one whose fetch failed at the API or one with an
\* unsupported prefix was turned into a sub-root and crawled.
FailedChildRootDoesNotStopOthers ==
    \A r \in CompositeRoots :
        CrawlDone /\ sink[r] = 1 /\ r \notin visitRaised =>
            \A k \in 1..Len(SubRoots(r)) :
                FetchFailed(SubRoots(r)[k]) \/ UnsupportedPrefix(SubRoots(r)[k]) =>
                    \A j \in (k + 1)..Len(SubRoots(r)) :
                        /\ SubRoots(r)[j] \in DOMAIN res
                        /\ CrawledLikeAnyOther(SubRoots(r)[j])

\* C33: in a composite-root crawl a child id whose fetch fails at the API
\* (ApiExecutionError, ResourceNotSupported) becomes a placeholder sub-root
\* and does not stop the iterator: if the iterator ends, every id was turned
\* into a sub-root, and if it raises, the exception comes from the
\* iterator being asked for a later id. An id with an unsupported prefix
\* makes from_root_id raise inside the iterator: neither that id nor any
\* later one is turned into a sub-root, and the composite root gets one
\* warning for it.
OnlyApiFailureKeepsLaterRoots ==
    \A r \in CompositeRoots : \A k \in 1..Len(SubRoots(r)) :
        /\ FetchFailed(SubRoots(r)[k]) =>
              /\ ~res[SubRoots(r)[k]].root
              /\ res[SubRoots(r)[k]].data = [name |-> RootIdOf(SubRoots(r)[k])]
              /\ \A i \in 1..Len(iterLog[r]) :
                    /\ iterLog[r][i].n >= k
                    /\ iterLog[r][i].out.kind = "end" =>
                          \A j \in 1..Len(SubRoots(r)) : SubRoots(r)[j] \in DOMAIN res
                    /\ iterLog[r][i].out.kind = "raise" =>
                          iterLog[r][i].out.src = "iterator"
        /\ UnsupportedPrefix(SubRoots(r)[k]) =>
              /\ \A j \in k..Len(SubRoots(r)) : SubRoots(r)[j] \notin DOMAIN res
              /\ \A i \in 1..Len(iterLog[r]) :
                    iterLog[r][i].n = k - 1 =>
                        /\ iterLog[r][i].out.kind = "raise"
                        /\ iterLog[r][i].out.src = "iterator"
                        /\ iterLog[r][i].w1 = iterLog[r][i].w0 + 1

\* The crawl of the composite root over buckets/b1 and organizations/9 is
\* over: from_root_id raised for the first id, the root carries the
\* warning, the organization was never built.
OnlyApiFailureKeepsLaterRootsWitness ==
    /\ CrawlDone /\ "cr3" \in finished
    /\ Len(iterLog["cr3"]) = 1 /\ iterLog["cr3"][1].out.kind = "raise"
    /\ Len(warning["cr3"]) = 1
    /\ "oT" \notin DOMAIN res

\* The child of p on the path from p down to x
BranchAt(p, x) ==
    CHOOSE c \in {x} \cup WorldAncestors(x) : c # p /\ WorldParent(c) = p

\* a comes before b in the depth-first pre-order of the hierarchy: a is
\* above b, or below their last common ancestor the branch of a is yielded
\* before the branch of b.
PreOrderBefore(a, b) ==
    /\ a # b
    /\ \/ a \in WorldAncestors(b)
       \/ \E p \in WorldAncestors(a) \cap WorldAncestors(b) :
             /\ BranchAt(p, a) # BranchAt(p, b)
             /\ YieldedBefore(p, BranchAt(p, a), BranchAt(p, b))

\* No resource is visited after one that follows it in the pre-order.
VisitsFollowPreOrder ==
    \A a \in DOMAIN res : \A b \in DOMAIN res :
        sink[b] > 0 /\ PreOrderBefore(a, b) => sink'[a] = sink[a]

\* Only the caller's thread runs, and nothing waits in a queue.
OneThread == queue = <<>> /\ \A t \in Resources : threads[t] = <<>>

\* C34: when visitor.dispatch runs each callback synchronously, the whole
\* crawl runs on the caller's thread, so its steps are fixed by the answers
\* of the client and the exclusion set, and the resources reach
\* visitor.visit in the depth-first pre-order of the hierarchy, children in
\* iterator-declaration order and then in the order of the listing.
SequentialCrawlInPreOrder ==
    []OneThread /\ [][VisitsFollowPreOrder]_vars

\* The crawl of the composite root over organization 1 and project p2 is
\* over: the role, both folders, their projects and p2 were visited, all on
\* the caller's thread.
SequentialCrawlInPreOrderWitness ==
    /\ CrawlDone
    /\ \A r \in {"cr", "o1", "r1", "fA", "pA", "fB", "pB", "p2"} : sink[r] = 1
    /\ PreOrderBefore("pA", "fB") /\ PreOrderBefore("pB", "p2")
    /\ PreOrderBefore("r1", "fA")

\* The empty container a getter of a project that is not ACTIVE returns
EmptyContainer(name) ==
    IF name = "enabled_apis" THEN List(<<>>) ELSE EmptyDict

\* The projects whose lifecycleState is not ACTIVE
InactiveProjects ==
    {r \in DOMAIN res :
        /\ res[r].cls = "project"
        /\ "lifecycleState" \in DOMAIN res[r].data
        /\ res[r].data["lifecycleState"] # <<"ACTIVE">>}

\* The calls of get_<name> on r
GetterCalls(r, name) ==
    {i \in 1..Len(probe) : probe[i].r = r /\ probe[i].name = name}

\* C35: on a project that is not ACTIVE, get_iam_policy, get_billing_info
\* and get_enabled_apis issue no API call, record no warning, and return and
\* memoize an empty container; after get_billing_info, billing_enabled() is
\* true, and after get_enabled_apis, is_api_enabled(name) is true for every
\* name.
InactiveProjectFetchesNothing ==
    \A r \in InactiveProjects :
        /\ \A i \in 1..Len(probe) :
              probe[i].r = r =>
                  /\ probe[i].ok /\ probe[i].calls = 0 /\ probe[i].warns = 0
                  /\ probe[i].ret = EmptyContainer(probe[i].name)
                  /\ probe[i].set /\ probe[i].cached = probe[i].ret
        /\ warning[r] = <<>>
        /\ \A name \in SideBandNames : apiCalls[r][name] = 0
        /\ GetterCalls(r, "billing_info") # {} =>
              \E b \in {billing_enabled(r, cache[r])} : b.ok /\ b.val
        /\ GetterCalls(r, "enabled_apis") # {} =>
              \A service_name \in AskedServices : is_api_enabled(r, service_name)

\* The three getters were called on the DELETE_REQUESTED project.
InactiveProjectFetchesNothingWitness ==
    /\ "pB" \in InactiveProjects
    /\ GetterCalls("pB", "iam_policy") # {}
    /\ GetterCalls("pB", "billing_info") # {}
    /\ GetterCalls("pB", "enabled_apis") # {}
    /\ cache["pB"] = ("iam_policy" :> EmptyDict) @@ ("billing_info" :> EmptyDict)
                     @@ ("enabled_apis" :> List(<<>>))
    /\ enabledNames["pB"] = [set |-> TRUE, names |-> {}]

\* The resources visited as the child of another: accept bound them to a
\* stack that ends with their parent.
VisitedChildren ==
    {r \in DOMAIN res : sink[r] > 0 /\ stackOf[r].bound /\ stackOf[r].s # <<>>}

\* The entry of the parent of every visited child is in the child's dependsOn
ParentsDeclared ==
    \A r \in VisitedChildren :
        res[Last(stackOf[r].s)].cls \in dependsOn(res[r].cls)

\* Every dependsOn names keys of the registry only
DependenciesRegistered ==
    \A T \in RegistryKeys : dependsOn(T) \subseteq RegistryKeys

\* C36 as stated: whenever a resource of entry T is visited as a child of a
\* resource of entry P, P is listed in the dependsOn of T, and every type a
\* dependsOn names is a key of the registry.
DependsOnAgreesWithTraversal ==
    ParentsDeclared /\ DependenciesRegistered

\* The clusters whose data carries no region label
MissingRegion ==
    {r \in DOMAIN res :
        /\ res[r].cls = "dataproc_cluster"
        /\ \/ "labels" \notin DOMAIN res[r].data
           \/ res[r].data["labels"] = None
           \/ "goog-dataproc-location" \notin DOMAIN res[r].data["labels"].d}

\* C37: get_iam_policy of a Dataproc cluster without a region label (no
\* 'labels', labels null, or labels without 'goog-dataproc-location') never
\* raises and never calls the API; the first call appends exactly one
\* warning, returns null and memoizes null, and a repeated call returns the
\* null without a second warning.
MissingRegionLabelWarnsOnce ==
    \A r \in MissingRegion :
        /\ \A i \in GetterCalls(r, "iam_policy") :
              /\ probe[i].ok /\ probe[i].ret = None /\ probe[i].calls = 0
              /\ probe[i].set /\ probe[i].cached = None
              /\ probe[i].warns =
                    IF i = CHOOSE j \in GetterCalls(r, "iam_policy") :
                              \A k \in GetterCalls(r, "iam_policy") : j <= k
                    THEN 1 ELSE 0
        /\ Len(warning[r]) = IF GetterCalls(r, "iam_policy") = {} THEN 0 ELSE 1
        /\ apiCalls[r]["iam_policy"] = 0

\* Each of the three kinds of cluster without a region label was asked, the
\* one without labels twice; each holds one warning and a memoized null.
MissingRegionLabelWarnsOnceWitness ==
    /\ MissingRegion = {"k1", "k2", "k3"}
    /\ Len(probe) = 3 /\ probe[1].r = "k1" /\ probe[2].r = "k1"
    /\ probe[3].r = "k2"
    /\ Len(warning["k1"]) = 1 /\ cache["k1"] = ("iam_policy" :> None)
    /\ warning["k2"] = << <<"Could", "not", "get", "Dataproc", "cluster",
                            "IAM", "Policy", "for", "uuid-k2", "in", "project",
                            "p42", ":", "Cluster", "has", "no", "labels.">> >>

\* The positions of the line breaks of a text
LineBreaks(text) == {i \in 1..Len(text) : text[i] = "\n"}

\* The lines of a text, in order
RECURSIVE Lines(_)
Lines(text) ==
    IF LineBreaks(text) = {} THEN <<text>>
    ELSE <<SubSeq(text, 1,
                  (CHOOSE i \in LineBreaks(text) :
                      \A j \in LineBreaks(text) : i <= j) - 1)>>
         \o Lines(SubSeq(text,
                         (CHOOSE i \in LineBreaks(text) :
                             \A j \in LineBreaks(text) : i <= j) + 1,
                         Len(text)))

\* The step leaves every recorded warning of r in place and only adds after
\* them.
WarningsKept(r) ==
    /\ Len(warning'[r]) >= Len(warning[r])
    /\ SubSeq(warning'[r], 1, Len(warning[r])) = warning[r]

\* get_warning() of r gives the recorded warnings, one per line, in the order
\* of recording.
GetWarningGivesAll(r) ==
    IF warning[r] = <<>> THEN get_warning(r, warning) = <<>>
    ELSE Lines(get_warning(r, warning)) = warning[r]

\* C38: the warnings of a resource are append-only: no step of the crawl or
\* of a side-band getter removes, reorders or rewrites a recorded warning, and
\* get_warning() always returns all the warnings recorded so far, in
\* recording order, joined by newlines.
WarningsAppendOnly ==
    /\ [][\A r \in Resources : WarningsKept(r)]_vars
    /\ [](\A r \in Resources : GetWarningGivesAll(r))

\* A resource holds two warnings, recorded by different steps, and
\* get_warning() returns the two lines.
WarningsAppendOnlyWitness ==
    \E r \in DOMAIN res :
        /\ Len(warning[r]) >= 2
        /\ warning[r][1] # warning[r][2]
        /\ LineBreaks(get_warning(r, warning)) # {}
        /\ Len(Lines(get_warning(r, warning))) = Len(warning[r])
====
